---------------------------- MODULE Spec2Model ----------------------------
(***************************************************************************)
(* A model of the DOOM WAD decoder of src/types/index.ts: BufferStream,    *)
(* the lump directory, the map lump groupers, the VERTEXES / LINEDEFS /    *)
(* THINGS record decoders and the symbolic tables of Thing.                *)
(*                                                                         *)
(* A Buffer is a sequence of bytes (0..255), a string is a sequence of     *)
(* character codes, `null` is the empty sequence <<>> and a value v that   *)
(* may be null is <<v>>.  A function that can throw returns a record with  *)
(* a field `threw`.                                                        *)
(***************************************************************************)
EXTENDS Integers, Sequences, FiniteSets, TLC

VARIABLES
    data,       \* WADFileBase._data: the buffer handed to fromBuffer
    input,      \* how the buffer was built (history variable, never read by the decoder)
    wadType,    \* "none" before fromBuffer, then the archive's type "IWAD" / "PWAD"
    error,      \* "none", or the error the last call raised
    call,       \* the last call: [op, episodeNr, mapNr]
    gen,        \* the running enumerateLumps() generator: [pc, position, i, lumpCount]
    lumps,      \* the lumps enumerateLumps() has yielded so far
    mapLumps,   \* allLumpsOfMap of the last map call
    lineDefs,   \* the result of the last enumerateLineDefsOf...Map call
    things,     \* the result of the last enumerateThingsOf...Map call
    json,       \* <<the result of toJSON() on a Thing>>, <<>> before the call
    streams,    \* the BufferStream objects alive between steps: [position]
    procs,      \* the generators started on the archive and what each has yielded
    ret,        \* <<what the last call of a helper returned>>, <<>> before it
    page        \* the state of the Home component: its useState values

vars == <<data, input, wadType, error, call, gen, lumps, mapLumps, lineDefs, things, json,
          streams, procs, ret, page>>

\* no page is rendered
NoPage == <<>>

----------------------------------------------------------------------------
(* Bounds of the model *)

\* the longest directory the map and header inputs enumerate
MaxLumps == 3

----------------------------------------------------------------------------
(* JavaScript helpers *)

\* `const x = e; F(x)`: e is evaluated once
Bind(e, F(_)) == CHOOSE y \in {F(x) : x \in {e}} : TRUE

Min(a, b) == IF a < b THEN a ELSE b
Max(a, b) == IF a > b THEN a ELSE b

\* Buffer.subarray(start, end): negative indices count from the end, both are
\* clamped to 0..length, an empty range yields an empty buffer
Subarray(buf, start, end) ==
    LET len == Len(buf)
        b == IF start < 0 THEN Max(len + start, 0) ELSE Min(start, len)
        e == IF end < 0 THEN Max(len + end, 0) ELSE Min(end, len)
    IN  IF e > b THEN SubSeq(buf, b + 1, e) ELSE <<>>

\* Buffer.toString('ascii'): the highest bit of every byte is unset
ToAsciiStringLatin1(buf) == buf
ToAsciiString(buf) == [i \in 1..Len(buf) |-> buf[i] % 128]

\* Buffer.readInt16LE(): throws on fewer than 2 bytes
ReadUInt16LE(temp) ==
    IF Len(temp) < 2
    THEN [threw |-> TRUE, value |-> 0]
    ELSE [threw |-> FALSE, value |-> temp[1] + 256 * temp[2]]
ReadInt16BE(temp) ==
    IF Len(temp) < 2
    THEN [threw |-> TRUE, value |-> 0]
    ELSE [threw |-> FALSE,
          value |-> temp[2] + 256 * (IF temp[1] >= 128 THEN temp[1] - 256 ELSE temp[1])]
ReadInt16LE(temp) ==
    IF Len(temp) < 2
    THEN [threw |-> TRUE, value |-> 0]
    ELSE [threw |-> FALSE,
          value |-> temp[1] + 256 * (IF temp[2] >= 128 THEN temp[2] - 256 ELSE temp[2])]

\* Buffer.readInt32LE(): throws on fewer than 4 bytes
ReadInt32BE(temp) ==
    IF Len(temp) < 4
    THEN [threw |-> TRUE, value |-> 0]
    ELSE [threw |-> FALSE,
          value |-> temp[4] + 256 * temp[3] + 65536 * temp[2]
                    + 16777216 * (IF temp[1] >= 128 THEN temp[1] - 256 ELSE temp[1])]
ReadInt32LE(temp) ==
    IF Len(temp) < 4
    THEN [threw |-> TRUE, value |-> 0]
    ELSE [threw |-> FALSE,
          value |-> temp[1] + 256 * temp[2] + 65536 * temp[3]
                    + 16777216 * (IF temp[4] >= 128 THEN temp[4] - 256 ELSE temp[4])]

\* String.prototype.toUpperCase() on 7-bit characters: a..z -> A..Z
ToUpperCase(s) == [i \in 1..Len(s) |-> IF s[i] \in 97..122 THEN s[i] - 32 ELSE s[i]]

\* the 7-bit characters String.prototype.trim() removes: \t \n \v \f \r and space
WhiteSpace == {9, 10, 11, 12, 13, 32}

\* String.prototype.trim(): s without its leading and trailing white space
RECURSIVE TrimFrom(_, _, _)
TrimFrom(s, first, last) ==
    IF first > last THEN <<>>
    ELSE IF s[first] \in WhiteSpace THEN TrimFrom(s, first + 1, last)
    ELSE IF s[last] \in WhiteSpace THEN TrimFrom(s, first, last - 1)
    ELSE SubSeq(s, first, last)

Trim(s) == TrimFrom(s, 1, Len(s))

StartsWith(s, prefix) ==
    Len(s) >= Len(prefix) /\ SubSeq(s, 1, Len(prefix)) = prefix

\* Number.prototype.toString() of an integer
RECURSIVE DigitsOf(_)
DigitsOf(n) == IF n < 10 THEN <<48 + n>> ELSE Append(DigitsOf(n \div 10), 48 + (n % 10))

NumberToString(n) == IF n < 0 THEN <<45>> \o DigitsOf(0 - n) ELSE DigitsOf(n)

\* String.prototype.padStart(targetLength, '0')
RECURSIVE PadEnd(_, _)
PadEnd(s, targetLength) ==
    IF Len(s) >= targetLength THEN s ELSE PadEnd(s \o <<48>>, targetLength)
RECURSIVE PadStart(_, _)
PadStart(s, targetLength) ==
    IF Len(s) >= targetLength THEN s ELSE PadStart(<<48>> \o s, targetLength)

\* the names the decoder looks for
STR_IWAD == <<73, 87, 65, 68>>                      \* "IWAD"
STR_PWAD == <<80, 87, 65, 68>>                      \* "PWAD"
STR_MAP == <<77, 65, 80>>                           \* "MAP"
STR_VERTEXES == <<86, 69, 82, 84, 69, 88, 69, 83>>  \* "VERTEXES"
STR_LINEDEFS == <<76, 73, 78, 69, 68, 69, 70, 83>>  \* "LINEDEFS"
STR_THINGS == <<84, 72, 73, 78, 71, 83>>            \* "THINGS"

----------------------------------------------------------------------------
(* BufferStream: a buffer and a position *)

FILE_ID_SIZE == 4

\* set position(value)
SetPosition(buf, value) == Min(value, Len(buf))

\* read(count): the bytes read and the position afterwards
Read(buf, position, count) ==
    Bind(Subarray(buf, position, position + count), LAMBDA bytes :
        [data |-> bytes, position |-> SetPosition(buf, position + Len(bytes))])

\* `temp.length !== n`, the test every decoder makes after a read
ShortReadNever(temp, n) == FALSE
ShortRead(temp, n) == Len(temp) # n

\* the result of a decoder: `value` is <<>> for null, `position` is the
\* stream's position afterwards
Decoded(value, position, threw) ==
    [value |-> value, position |-> position, threw |-> threw]

\* n int16 fields read one after the other, as every record decoder does:
\* temp = stream.read(2); if (temp.length !== 2) return null; temp.readInt16LE()
RECURSIVE ReadInt16Fields(_, _, _, _)
ReadInt16Fields(buf, position, n, acc) ==
    IF n = 0 THEN Decoded(<<acc>>, position, FALSE)
    ELSE Bind(Read(buf, position, 2), LAMBDA r :
            IF ShortRead(r.data, 2) THEN Decoded(<<>>, r.position, FALSE)
            ELSE Bind(ReadInt16LE(r.data), LAMBDA v :
                    IF v.threw THEN Decoded(<<>>, r.position, TRUE)
                    ELSE ReadInt16Fields(buf, r.position, n - 1, Append(acc, v.value))))

----------------------------------------------------------------------------
(* Lump.fromBufferStream *)

\* while (lumpName.endsWith("\0")) lumpName = lumpName.substring(0, length - 1)
RECURSIVE StripTrailingNulFrom(_, _)
StripTrailingNulFrom(lumpName, length) ==
    IF length > 0 /\ lumpName[length] = 0
    THEN StripTrailingNulFrom(lumpName, length - 1)
    ELSE SubSeq(lumpName, 1, length)

StripTrailingNul(lumpName) == StripTrailingNulFrom(lumpName, Len(lumpName))

LumpFromBufferStream(buf, position) ==
    Bind(Read(buf, position, 4), LAMBDA r1 :
    IF ShortRead(r1.data, 4) THEN Decoded(<<>>, r1.position, FALSE)
    ELSE Bind(ReadInt32LE(r1.data), LAMBDA lumpPos :
    IF lumpPos.threw THEN Decoded(<<>>, r1.position, TRUE)
    ELSE Bind(Read(buf, r1.position, 4), LAMBDA r2 :
    IF ShortRead(r2.data, 4) THEN Decoded(<<>>, r2.position, FALSE)
    ELSE Bind(ReadInt32LE(r2.data), LAMBDA lumpSize :
    IF lumpSize.threw THEN Decoded(<<>>, r2.position, TRUE)
    ELSE Bind(Read(buf, r2.position, 8), LAMBDA r3 :
    IF ShortRead(r3.data, 8) THEN Decoded(<<>>, r3.position, FALSE)
    ELSE Bind(StripTrailingNul(ToAsciiString(r3.data)), LAMBDA lumpName :
         Decoded(<<[name |-> lumpName,
                    position |-> lumpPos.value,
                    size |-> lumpSize.value]>>, r3.position, FALSE)))))))

----------------------------------------------------------------------------
(* WADFileBase.enumerateLumps *)

\* the generator's state
Gen(pc, position, i, lumpCount) ==
    [pc |-> pc, position |-> position, i |-> i, lumpCount |-> lumpCount]

GenIdle == Gen("idle", 0, 0, 0)

\* the body up to the for loop: skip the file id, read lumpCount and
\* lumpDirOffset, seek to the directory
LumpsHeader(buf) ==
    Bind(Read(buf, SetPosition(buf, FILE_ID_SIZE), 4), LAMBDA r1 :
    IF ShortRead(r1.data, 4) THEN Gen("done", r1.position, 0, 0)
    ELSE Bind(ReadInt32LE(r1.data), LAMBDA lumpCount :
    IF lumpCount.threw THEN Gen("threw", r1.position, 0, 0)
    ELSE Bind(Read(buf, r1.position, 4), LAMBDA r2 :
    IF ShortRead(r2.data, 4) THEN Gen("done", r2.position, 0, lumpCount.value)
    ELSE Bind(ReadInt32LE(r2.data), LAMBDA lumpDirOffset :
    IF lumpDirOffset.threw THEN Gen("threw", r2.position, 0, lumpCount.value)
    ELSE Gen("loop", SetPosition(buf, lumpDirOffset.value), 0, lumpCount.value)))))

\* one pass of `for (let i = 0; i < lumpCount; i++)`: the generator's next
\* state and what it yields (<<>> when it returns)
LumpsIteration(buf, g) ==
    IF ~(g.i < g.lumpCount)
    THEN [gen |-> Gen("done", g.position, g.i, g.lumpCount), yield |-> <<>>]
    ELSE Bind(LumpFromBufferStream(buf, g.position), LAMBDA newLump :
            IF newLump.threw
            THEN [gen |-> Gen("threw", newLump.position, g.i, g.lumpCount), yield |-> <<>>]
            ELSE IF newLump.value # <<>>
            THEN [gen |-> Gen("loop", newLump.position, g.i + 1, g.lumpCount),
                  yield |-> newLump.value]
            ELSE [gen |-> Gen("done", newLump.position, g.i, g.lumpCount), yield |-> <<>>])

\* Array.from(this.enumerateLumps()): the generator run to its end
RECURSIVE LumpsLoop(_, _, _)
LumpsLoop(buf, g, acc) ==
    IF g.pc # "loop"
    THEN [value |-> acc, threw |-> g.pc = "threw"]
    ELSE Bind(LumpsIteration(buf, g), LAMBDA step :
            LumpsLoop(buf, step.gen, acc \o step.yield))

AllLumps(buf) == Bind(LumpsHeader(buf), LAMBDA g : LumpsLoop(buf, g, <<>>))

----------------------------------------------------------------------------
(* WADFileBase.fromBuffer *)

\* the new archive's type; threw when the header is neither
FromBufferType(buf) ==
    Bind(ToAsciiString(Subarray(buf, 0, FILE_ID_SIZE)), LAMBDA header :
        IF header = STR_IWAD THEN [value |-> "IWAD", threw |-> FALSE]
        ELSE IF header = STR_PWAD THEN [value |-> "PWAD", threw |-> FALSE]
        ELSE [value |-> "none", threw |-> TRUE])

----------------------------------------------------------------------------
(* The map lump groupers *)

\* Array.prototype.findIndex with `lump.name === mapLumpName`: the 1-based
\* index of the first match, 0 for -1
RECURSIVE FindIndexFrom(_, _, _)
FindIndexFrom(allLumps, mapLumpName, k) ==
    IF k > Len(allLumps) THEN 0
    ELSE IF allLumps[k].name = mapLumpName THEN k
    ELSE FindIndexFrom(allLumps, mapLumpName, k + 1)

FindIndexIgnoringCase(allLumps, mapLumpName) ==
    IF \E k \in 1..Len(allLumps) : Trim(ToUpperCase(allLumps[k].name)) = mapLumpName
    THEN CHOOSE k \in 1..Len(allLumps) :
            /\ Trim(ToUpperCase(allLumps[k].name)) = mapLumpName
            /\ \A j \in 1..(k - 1) : Trim(ToUpperCase(allLumps[j].name)) # mapLumpName
    ELSE 0
FindLastIndex(allLumps, mapLumpName) ==
    IF \E k \in 1..Len(allLumps) : allLumps[k].name = mapLumpName
    THEN CHOOSE k \in 1..Len(allLumps) :
            /\ allLumps[k].name = mapLumpName
            /\ \A j \in (k + 1)..Len(allLumps) : allLumps[j].name # mapLumpName
    ELSE 0
FindIndex(allLumps, mapLumpName) == FindIndexFrom(allLumps, mapLumpName, 1)

\* `E${episodeNr}M${mapNr}`
Doom1MapLumpName(episodeNr, mapNr) ==
    <<69>> \o NumberToString(episodeNr) \o <<77>> \o NumberToString(mapNr)

\* `MAP${mapNr.toString().padStart(2, '0')}`
Doom2MapLumpName(mapNr) == STR_MAP \o PadStart(NumberToString(mapNr), 2)

\* String(lumpOfMap.name || '').toUpperCase().trim()
NormalizedNameRaw(name) == name
NormalizedName(name) == Trim(ToUpperCase(name))

\* new RegExp(/^(E)([0-9])/).test(lumpName)
Doom1Terminator(lump) ==
    Bind(NormalizedName(lump.name), LAMBDA lumpName :
        Len(lumpName) >= 2 /\ lumpName[1] = 69 /\ lumpName[2] \in 48..57)

\* lumpName.startsWith('MAP')
Doom2Terminator(lump) ==
    Bind(NormalizedName(lump.name), LAMBDA lumpName : StartsWith(lumpName, STR_MAP))

\* the while loop of _enumerateDoom1MapLumps; mapLumpIndex is 1-based here,
\* so after ++offset the lump looked at is allLumps[mapLumpIndex + offset + 1]
RECURSIVE Doom1MapLoop(_, _, _, _)
Doom1MapLoop(allLumps, mapLumpIndex, offset, acc) ==
    IF ~(mapLumpIndex - 1 + offset < Len(allLumps)) THEN acc
    ELSE IF mapLumpIndex + offset + 1 > Len(allLumps) THEN acc
    ELSE IF Doom1Terminator(allLumps[mapLumpIndex + offset + 1]) THEN acc
    ELSE Doom1MapLoop(allLumps, mapLumpIndex, offset + 1,
                      Append(acc, allLumps[mapLumpIndex + offset + 1]))

\* the while loop of _enumerateDoom2MapLumps
RECURSIVE Doom2MapLoop(_, _, _, _)
Doom2MapLoop(allLumps, mapLumpIndex, offset, acc) ==
    IF ~(mapLumpIndex - 1 + offset < Len(allLumps)) THEN acc
    ELSE IF mapLumpIndex + offset + 1 > Len(allLumps) THEN acc
    ELSE IF Doom2Terminator(allLumps[mapLumpIndex + offset + 1]) THEN acc
    ELSE Doom2MapLoop(allLumps, mapLumpIndex, offset + 1,
                      Append(acc, allLumps[mapLumpIndex + offset + 1]))

\* Array.from(this._enumerateDoom1MapLumps(episodeNr, mapNr))
Doom1MapLumps(buf, episodeNr, mapNr) ==
    Bind(AllLumps(buf), LAMBDA allLumps :
    Bind(FindIndex(allLumps.value, Doom1MapLumpName(episodeNr, mapNr)), LAMBDA mapLumpIndex :
        IF allLumps.threw THEN [value |-> <<>>, threw |-> TRUE]
        ELSE IF mapLumpIndex = 0 THEN [value |-> <<>>, threw |-> FALSE]
        ELSE [value |-> Doom1MapLoop(allLumps.value, mapLumpIndex, 0, <<>>),
              threw |-> FALSE]))

\* Array.from(this._enumerateDoom2MapLumps(mapNr))
Doom2MapLumps(buf, mapNr) ==
    Bind(AllLumps(buf), LAMBDA allLumps :
    Bind(FindIndex(allLumps.value, Doom2MapLumpName(mapNr)), LAMBDA mapLumpIndex :
        IF allLumps.threw THEN [value |-> <<>>, threw |-> TRUE]
        ELSE IF mapLumpIndex = 0 THEN [value |-> <<>>, threw |-> FALSE]
        ELSE [value |-> Doom2MapLoop(allLumps.value, mapLumpIndex, 0, <<>>),
              threw |-> FALSE]))

----------------------------------------------------------------------------
(* The record decoders *)

\* Vertex.fromBufferStream
VertexFromBufferStream(buf, position) ==
    Bind(ReadInt16Fields(buf, position, 2, <<>>), LAMBDA fields :
        IF fields.value = <<>> THEN fields
        ELSE Decoded(<<[x |-> fields.value[1][1], y |-> fields.value[1][2]]>>,
                     fields.position, FALSE))

\* vertexes[index]: undefined (<<>>) outside 0..length-1
VertexAtWrapped(vertexes, index) ==
    IF index >= 0 - Len(vertexes) /\ index < Len(vertexes)
    THEN <<vertexes[((index + Len(vertexes)) % Len(vertexes)) + 1]>> ELSE <<>>
VertexAtOneBased(vertexes, index) ==
    IF index >= 1 /\ index <= Len(vertexes) THEN <<vertexes[index]>> ELSE <<>>
VertexAt(vertexes, index) ==
    IF index >= 0 /\ index < Len(vertexes) THEN <<vertexes[index + 1]>> ELSE <<>>

\* LineDefs.fromBufferStream: startVertexIndex, endVertexIndex, flags,
\* specialType, sectorTag, sideDefRight, sideDefLeft, then the two vertexes
LineDefsFromBufferStream(buf, position, vertexes) ==
    Bind(ReadInt16Fields(buf, position, 7, <<>>), LAMBDA fields :
        IF fields.value = <<>> THEN fields
        ELSE Bind(VertexAt(vertexes, fields.value[1][1]), LAMBDA startVertex :
             Bind(VertexAt(vertexes, fields.value[1][2]), LAMBDA endVertex :
                IF startVertex = <<>> THEN Decoded(<<>>, fields.position, FALSE)
                ELSE IF endVertex = <<>> THEN Decoded(<<>>, fields.position, FALSE)
                ELSE Decoded(<<[start |-> startVertex[1], end |-> endVertex[1]]>>,
                             fields.position, FALSE))))

\* Thing.fromBufferStream: x, y, angle, type, flags
ThingFromBufferStream(buf, position) ==
    Bind(ReadInt16Fields(buf, position, 5, <<>>), LAMBDA fields :
        IF fields.value = <<>> THEN fields
        ELSE Decoded(<<[x |-> fields.value[1][1], y |-> fields.value[1][2],
                        angle |-> fields.value[1][3], type |-> fields.value[1][4],
                        flags |-> fields.value[1][5]]>>,
                     fields.position, FALSE))

----------------------------------------------------------------------------
(* Decoding the records of a lump *)

\* Array.prototype.find with `lump.name.toUpperCase().trim() === name`:
\* <<>> for undefined
RECURSIVE FindLumpFrom(_, _, _)
FindLumpFrom(allLumpsOfMap, name, k) ==
    IF k > Len(allLumpsOfMap) THEN <<>>
    ELSE IF Trim(ToUpperCase(allLumpsOfMap[k].name)) = name THEN <<allLumpsOfMap[k]>>
    ELSE FindLumpFrom(allLumpsOfMap, name, k + 1)

FindLumpOrFirst(allLumpsOfMap, name) ==
    Bind(FindLumpFrom(allLumpsOfMap, name, 1), LAMBDA found :
        IF found = <<>> /\ allLumpsOfMap # <<>> THEN <<allLumpsOfMap[1]>> ELSE found)
RECURSIVE FindLumpBackFrom(_, _, _)
FindLumpBackFrom(allLumpsOfMap, name, k) ==
    IF k < 1 THEN <<>>
    ELSE IF Trim(ToUpperCase(allLumpsOfMap[k].name)) = name THEN <<allLumpsOfMap[k]>>
    ELSE FindLumpBackFrom(allLumpsOfMap, name, k - 1)

FindLastLump(allLumpsOfMap, name) ==
    FindLumpBackFrom(allLumpsOfMap, name, Len(allLumpsOfMap))
FindLump(allLumpsOfMap, name) == FindLumpFrom(allLumpsOfMap, name, 1)

\* `while (stream.position < lump.position + lump.size)` over Vertex.fromBufferStream
RECURSIVE VertexLoop(_, _, _, _)
VertexLoop(buf, position, lump, acc) ==
    IF ~(position < lump.position + lump.size)
    THEN [value |-> acc, threw |-> FALSE]
    ELSE Bind(VertexFromBufferStream(buf, position), LAMBDA newVertex :
            IF newVertex.threw THEN [value |-> acc, threw |-> TRUE]
            ELSE IF newVertex.value # <<>>
            THEN VertexLoop(buf, newVertex.position, lump, acc \o newVertex.value)
            ELSE [value |-> acc, threw |-> FALSE])

\* the same loop over LineDefs.fromBufferStream
RECURSIVE LineDefLoop(_, _, _, _, _)
LineDefLoop(buf, position, lump, vertexes, acc) ==
    IF ~(position < lump.position + lump.size)
    THEN [value |-> acc, threw |-> FALSE]
    ELSE Bind(LineDefsFromBufferStream(buf, position, vertexes), LAMBDA newLineDef :
            IF newLineDef.threw THEN [value |-> acc, threw |-> TRUE]
            ELSE IF newLineDef.value # <<>>
            THEN LineDefLoop(buf, newLineDef.position, lump, vertexes,
                             acc \o newLineDef.value)
            ELSE [value |-> acc, threw |-> FALSE])

\* the same loop over Thing.fromBufferStream
RECURSIVE ThingLoop(_, _, _, _)
ThingLoop(buf, position, lump, acc) ==
    IF ~(position < lump.position + lump.size)
    THEN [value |-> acc, threw |-> FALSE]
    ELSE Bind(ThingFromBufferStream(buf, position), LAMBDA newThing :
            IF newThing.threw THEN [value |-> acc, threw |-> TRUE]
            ELSE IF newThing.value # <<>>
            THEN ThingLoop(buf, newThing.position, lump, acc \o newThing.value)
            ELSE [value |-> acc, threw |-> FALSE])

\* Array.from(this._enumerateLineDefsOfMap(new BufferStream(this._data), allLumpsOfMap))
EnumerateLineDefsOfMap(buf, allLumpsOfMap) ==
    Bind(FindLump(allLumpsOfMap, STR_VERTEXES), LAMBDA vertexesLumpOfMap :
    IF vertexesLumpOfMap = <<>> THEN [value |-> <<>>, threw |-> FALSE]
    ELSE Bind(VertexLoop(buf, SetPosition(buf, vertexesLumpOfMap[1].position),
                         vertexesLumpOfMap[1], <<>>), LAMBDA vertexesOfMap :
    IF vertexesOfMap.threw THEN [value |-> <<>>, threw |-> TRUE]
    ELSE Bind(FindLump(allLumpsOfMap, STR_LINEDEFS), LAMBDA lindefsLump :
    IF lindefsLump = <<>> THEN [value |-> <<>>, threw |-> FALSE]
    ELSE LineDefLoop(buf, SetPosition(buf, lindefsLump[1].position),
                     lindefsLump[1], vertexesOfMap.value, <<>>))))

\* Array.from(this._enumerateThingsOfMap(new BufferStream(this._data), allLumpsOfMap))
EnumerateThingsOfMap(buf, allLumpsOfMap) ==
    Bind(FindLump(allLumpsOfMap, STR_THINGS), LAMBDA thingsLump :
    IF thingsLump = <<>> THEN [value |-> <<>>, threw |-> FALSE]
    ELSE ThingLoop(buf, SetPosition(buf, thingsLump[1].position), thingsLump[1], <<>>))

----------------------------------------------------------------------------
(* The symbolic tables of Thing *)

\* enum DOOMThingFlags, in declaration order
DOOMThingFlags == <<
    <<"Skill_1_and_2", 1>>, <<"Skill_3", 2>>, <<"Skill_4_and_5", 4>>,
    <<"Deaf", 8>>, <<"NotInSinglePlayer", 16>>, <<"NotInDeathmatch", 32>>,
    <<"NotInCoop", 64>>, <<"FriendlyMonster", 128>> >>

\* enum DOOMThingType, in declaration order
DOOMThingType == <<
    <<"UNKNOWN", 0>>, <<"AmmoClip", 2007>>, <<"BoxOfAmmo", 2048>>,
    <<"BoxOfRockets", 2046>>, <<"BoxOfShells", 2049>>,
    <<"CellCharge", 2047>>, <<"CellChargePack", 17>>, <<"Rocket", 2010>>,
    <<"ShotgunShells", 2008>>, <<"Berserk", 2023>>, <<"ComputerMap", 2026>>,
    <<"HealthPoition", 2014>>, <<"Invisibility", 2024>>,
    <<"Invulnerability", 2022>>, <<"LightAmplicationVisor", 2045>>,
    <<"Megasphere", 83>>, <<"SoulSphere", 2013>>, <<"SpiritualArmor", 2015>>,
    <<"BloodyMess1", 10>>, <<"BloodyMess2", 12>>, <<"Candle", 34>>,
    <<"DeadCacodemon", 22>>, <<"DeadDemon", 21>>, <<"DeadFormerHuman", 18>>,
    <<"DeadFormerSergeant", 19>>, <<"DeadImp", 20>>, <<"DeadPlayer", 15>>,
    <<"HangingLeg1", 62>>, <<"HangingPairOfLegs1", 60>>,
    <<"HangingVictimArmsOut1", 59>>, <<"HangingVictimOneLegged1", 61>>,
    <<"HangingVictimTwitching1", 63>>, <<"InvisibleDeadLostSoul", 23>>,
    <<"PoolOfBlood1", 79>>, <<"PoolOfBlood2", 80>>,
    <<"PoolOfBloodAndFlesh", 24>>, <<"PoolOfBrains", 81>>,
    <<"BlueKeycard", 5>>, <<"BlueSkullKey", 40>>, <<"RedKeycard", 13>>,
    <<"RedSkullKey", 38>>, <<"YellowKeycard", 6>>, <<"YellowSkullKey", 39>>,
    <<"Arachnotron", 68>>, <<"ArchVile", 64>>, <<"BaronOfHell", 3003>>,
    <<"Cacodemon", 3005>>, <<"Chaingunner", 65>>, <<"CommanderKeen", 72>>,
    <<"Cyberdemon", 16>>, <<"Demon", 3002>>, <<"FormerHumanTrooper", 3004>>,
    <<"FormerHumanSergeant", 9>>, <<"HellKnight", 69>>, <<"Imp", 3001>>,
    <<"LostSoul", 3006>>, <<"Mancubus", 67>>, <<"PainElemental", 71>>,
    <<"Revenant", 66>>, <<"Spectre", 58>>, <<"SpiderMastermind", 7>>,
    <<"WolfensteinSoldier", 84>>, <<"Barrel", 2035>>,
    <<"BurningBarrel", 70>>, <<"BurntTree", 43>>, <<"Candelabra", 35>>,
    <<"EvilEye", 41>>, <<"FiveSkullsShishKebab", 28>>,
    <<"FloatingSkull", 42>>, <<"FloorLamp", 2028>>, <<"HangingLeg2", 53>>,
    <<"HangingPairOfLegs2", 52>>, <<"HangingTorsoBrainRemoved", 78>>,
    <<"HangingTorsoLookingDown", 75>>, <<"HangingTorsoLookingUp", 77>>,
    <<"HangingTorsoOpenSkull", 76>>, <<"HangingVictimArmsOut", 50>>,
    <<"HangingVictimGutsAndBrainRemoved", 74>>,
    <<"HangingVictimGutsRemoved", 73>>, <<"HangingVictimOneLegged2", 51>>,
    <<"HangingVictimTwitching2", 49>>, <<"ImpaledHuman", 25>>,
    <<"LargeBrownTree", 54>>, <<"PileOfSkullsAndCandles", 29>>,
    <<"ShortBlueFirestick", 55>>, <<"ShortGreenFirestick", 56>>,
    <<"ShortGreenPillar", 31>>, <<"ShortGreenPillarWithBeatingHeart", 36>>,
    <<"ShortRedFirestick", 57>>, <<"ShortRedPillar", 33>>,
    <<"ShortRedPillarWithSkull", 37>>, <<"ShortTechnoFloorLamp", 86>>,
    <<"SkullOnAPole", 27>>, <<"Stalagmite", 47>>,
    <<"TallBlueFirestick", 44>>, <<"TallGreenFirestick", 45>>,
    <<"TallGreenPillar", 30>>, <<"TallRedFirestick", 46>>,
    <<"TallRedPillar", 32>>, <<"TallTechnoFloorLamp", 85>>,
    <<"TallTechnoPillar", 48>>, <<"TwitchingImpaledHuman", 26>>,
    <<"BossBrain", 88>>, <<"DeathmatchStart", 11>>, <<"Player1Start", 1>>,
    <<"Player2Start", 2>>, <<"Player3Start", 3>>, <<"Player4Start", 4>>,
    <<"SpawnShooter", 89>>, <<"SpawnSpot", 87>>, <<"TeleportLanding", 14>>,
    <<"Backpack", 8>>, <<"BlueArmor", 2019>>, <<"GreenArmor", 2018>>,
    <<"Medikit", 2012>>, <<"RadiationSuit", 2025>>, <<"Stimpack", 2011>>,
    <<"BFG9000", 2006>>, <<"Chaingun", 2002>>, <<"Chainsaw", 2005>>,
    <<"PlasmaRifle", 2004>>, <<"RocketLauncher", 2003>>, <<"Shotgun", 2001>>,
    <<"SuperShotgun", 82>> >>


\* the numbers among Object.values(<enum>): the object of a numeric enum
\* lists its reverse mappings (strings) first, then the members' values in
\* declaration order, and a string passes neither getter's test
EnumValues(enum) == [k \in 1..Len(enum) |-> enum[k][2]]

\* <enum>[value]: the reverse mapping, <<>> for undefined
EnumName(enum, value) ==
    IF \E k \in 1..Len(enum) : enum[k][2] = value
    THEN <<enum[CHOOSE k \in 1..Len(enum) : enum[k][2] = value][1]>>
    ELSE <<>>

\* a & b of JavaScript, for a two's complement a and b >= 0
BitAndEqual(a, b) == IF a = b THEN b ELSE 0
RECURSIVE BitAnd(_, _)
BitAnd(a, b) ==
    IF b = 0 \/ a = 0 THEN 0
    ELSE 2 * BitAnd(a \div 2, b \div 2) + (IF a % 2 = 1 /\ b % 2 = 1 THEN 1 ELSE 0)

\* get doomFlags()
DoomFlags(thing) ==
    Bind(thing.flags, LAMBDA flags :
        SelectSeq(EnumValues(DOOMThingFlags), LAMBDA value : BitAnd(flags, value) # 0))

\* get doomFlagNames()
DoomFlagNames(thing) ==
    Bind(DoomFlags(thing), LAMBDA flags :
        [k \in 1..Len(flags) |-> EnumName(DOOMThingFlags, flags[k])[1]])

\* get doomType(): the value found, <<>> for null
DoomType(thing) ==
    Bind(thing.type, LAMBDA type :
        IF \E k \in 1..Len(DOOMThingType) : DOOMThingType[k][2] = type
        THEN <<type>> ELSE <<>>)

\* `!doomType`: null and 0 are falsy
Falsy(doomType) == doomType = <<>> \/ doomType[1] = 0

\* get doomTypeName()
DoomTypeName(thing) ==
    Bind(DoomType(thing), LAMBDA doomType :
        IF Falsy(doomType) THEN <<>> ELSE EnumName(DOOMThingType, doomType[1]))

\* Thing.toJSON(): the derived members
ThingToJSON(thing) ==
    [doomFlagNames |-> DoomFlagNames(thing), doomFlags |-> DoomFlags(thing),
     doomType |-> DoomType(thing), doomTypeName |-> DoomTypeName(thing),
     flags |-> thing.flags, type |-> thing.type]

----------------------------------------------------------------------------
(* The input buffers: synthetic archives                                   *)
(*                                                                         *)
(*   0..3 file id | 4..7 lump count | 8..11 directory offset |             *)
(*   12..23 three vertices | 24..79 four LINEDEFS records |                *)
(*   80..109 three THINGS records | 110.. the directory                    *)

\* an integer as little-endian two's complement bytes
LE16(n) == <<n % 256, (n \div 256) % 256>>
LE32(n) == <<n % 256, (n \div 256) % 256, (n \div 65536) % 256, (n \div 16777216) % 256>>

\* the concatenation of a sequence of sequences
RECURSIVE FlattenFrom(_, _)
FlattenFrom(seqs, k) == IF k > Len(seqs) THEN <<>> ELSE seqs[k] \o FlattenFrom(seqs, k + 1)

Flatten(seqs) == Bind(seqs, LAMBDA s : FlattenFrom(s, 1))

Int16Record(fields) == Flatten([k \in 1..Len(fields) |-> LE16(fields[k])])

VertexBytes ==
    Int16Record(<<0, 0>>) \o Int16Record(<<10, 0>>) \o Int16Record(<<0 - 3, 7>>)

\* start vertex, end vertex, flags, special type, sector tag, right, left
LineDefBytes ==
    Int16Record(<<0, 1, 1, 0, 0, 0, 0 - 1>>)
    \o Int16Record(<<1, 2, 4, 11, 7, 1, 2>>)
    \o Int16Record(<<0 - 1, 0, 0, 0, 0, 2, 3>>)
    \o Int16Record(<<2, 0, 516, 1, 0 - 2, 4, 0 - 1>>)

\* x, y, angle, type, flags
ThingBytes ==
    Int16Record(<<5, 0 - 5, 90, 1, 9>>)
    \o Int16Record(<<0, 0, 0, 3004, 0 - 32761>>)
    \o Int16Record(<<1, 2, 270, 0 - 1, 256>>)

Blob == VertexBytes \o LineDefBytes \o ThingBytes

\* where the archive's parts start: the header is the file id and two int32
VertexesAt == FILE_ID_SIZE + 8
LineDefsAt == VertexesAt + Len(VertexBytes)
ThingsAt == LineDefsAt + Len(LineDefBytes)
DirectoryAt == ThingsAt + Len(ThingBytes)

Lump(name, position, size) == [name |-> name, position |-> position, size |-> size]

\* a directory entry: offset, size, the name padded with NULs to 8 bytes
EncodeEntry(lump) ==
    LE32(lump.position) \o LE32(lump.size)
    \o [k \in 1..8 |-> IF k <= Len(lump.name) THEN lump.name[k] ELSE 0]

EncodeDirectory(dir) == Flatten([k \in 1..Len(dir) |-> EncodeEntry(dir[k])])

Input(magic, count, dirOffset, dir, cut) ==
    [magic |-> magic, count |-> count, dirOffset |-> dirOffset, dir |-> dir, cut |-> cut]

\* the archive of an input, without its last `cut` bytes
BufferOf(inp) ==
    Bind(inp.magic \o LE32(inp.count) \o LE32(inp.dirOffset) \o Blob
         \o EncodeDirectory(inp.dir), LAMBDA whole :
        SubSeq(whole, 1, Len(whole) - inp.cut))

SeqsUpTo(S, n) == UNION {[1..k -> S] : k \in 0..n}

\* lump names
N_E1M1 == <<69, 49, 77, 49>>                            \* "E1M1"
N_e1m2 == <<101, 49, 109, 50>>                          \* "e1m2"
N_MAP01 == <<77, 65, 80, 48, 49>>                       \* "MAP01"
N_map02 == <<109, 97, 112, 48, 50>>                     \* "map02"
N_vertexes == <<118, 101, 114, 116, 101, 120, 101, 115>>  \* "vertexes"

\* maps: every directory of up to MaxLumps lumps over markers of both
\* conventions and well-formed VERTEXES / LINEDEFS / THINGS lumps
MapLumps == {
    Lump(N_E1M1, 0, 0), Lump(N_e1m2, 0, 0), Lump(N_MAP01, 0, 0), Lump(N_map02, 0, 0),
    Lump(STR_VERTEXES, VertexesAt, 12), Lump(STR_LINEDEFS, LineDefsAt, 28),
    Lump(STR_THINGS, ThingsAt, 20) }

MapInputs ==
    {Input(STR_IWAD, Len(dir), DirectoryAt, dir, 0) : dir \in SeqsUpTo(MapLumps, MaxLumps)}

\* lump contents: one map whose lumps vary in offset and size (empty, whole
\* records, a partial last record, negative, outside the buffer, a record
\* that the end of the 174-byte buffer cuts short)
VertexesLumps ==
    {Lump(STR_VERTEXES, p[1], p[2]) :
        p \in {<<12, 12>>, <<12, 8>>, <<12, 0>>, <<12, 6>>, <<0 - 8, 8>>, <<5000, 8>>}}

LineDefsLumps ==
    {Lump(STR_LINEDEFS, p[1], p[2]) :
        p \in {<<24, 14>>, <<24, 28>>, <<24, 56>>, <<38, 14>>, <<24, 20>>,
               <<24, 0 - 1>>, <<0 - 14, 14>>}}

ThingsLumps ==
    {Lump(STR_THINGS, p[1], p[2]) :
        p \in {<<80, 10>>, <<80, 30>>, <<80, 15>>, <<80, 0>>, <<0 - 10, 10>>, <<80, 0 - 5>>,
               <<169, 10>>, <<166, 20>>}}

ContentInputs ==
    {Input(STR_PWAD, 4, DirectoryAt,
           <<Lump(N_E1M1, 0, 0), v, l, Lump(STR_THINGS, ThingsAt, 20)>>, 0) :
        v \in VertexesLumps, l \in LineDefsLumps}
    \cup
    {Input(STR_PWAD, 4, DirectoryAt,
           <<Lump(N_MAP01, 0, 0), Lump(N_vertexes, VertexesAt, 12),
             Lump(STR_LINEDEFS, LineDefsAt, 28), t>>, 0) :
        t \in ThingsLumps}

\* headers: the declared count below, at and above the number of entries,
\* the directory offset at an entry, at and past the end and negative, and
\* a last entry cut short
HeaderLumps ==
    {Lump(<<65, 0, 66>>, 24, 14), Lump(<<76, 79, 78, 71, 78, 65, 77, 69>>, 0 - 3, 70000)}

HeaderInputs ==
    {Input(STR_IWAD, Len(dir) + d, o, dir, cut) :
        dir \in SeqsUpTo(HeaderLumps, MaxLumps),
        d \in {0 - 1, 0, 1},
        o \in {DirectoryAt, DirectoryAt + 16, DirectoryAt + 16 * MaxLumps, 5000,
               0 - 16, 0 - 32},
        cut \in {0, 3}}

\* file ids: the two valid ones, an unknown one, one with a set high bit, and
\* buffers that end inside the file id or inside the header
MagicInputs ==
    {Input(m, 1, DirectoryAt, <<Lump(N_E1M1, 0, 0)>>, 0) :
        m \in {STR_IWAD, STR_PWAD, <<88, 88, 88, 88>>, <<201, 87, 65, 68>>}}
    \cup {Input(STR_IWAD, 0, DirectoryAt, <<>>, c) : c \in {100, 104, 107, 110}}

N_things == <<32, 116, 104, 105, 110, 103, 115, 32>>       \* " things "
N_Linedefs == <<76, 105, 110, 101, 100, 101, 102, 115>>   \* "Linedefs"

\* lookups: groups with two lumps of the same upper-cased, trimmed name, and
\* groups with a THINGS lump but no VERTEXES or no LINEDEFS lump
LookupInputs ==
    {Input(STR_PWAD, Len(dir), DirectoryAt, dir, 0) :
        dir \in {
            <<Lump(N_MAP01, 0, 0), Lump(N_things, ThingsAt + 10, 10),
              Lump(STR_THINGS, ThingsAt, 30)>>,
            <<Lump(N_E1M1, 0, 0), Lump(STR_THINGS, ThingsAt, 20),
              Lump(N_things, ThingsAt + 20, 10), Lump(STR_LINEDEFS, LineDefsAt, 14)>>,
            <<Lump(N_E1M1, 0, 0), Lump(N_vertexes, VertexesAt + 4, 8),
              Lump(STR_VERTEXES, VertexesAt, 12), Lump(N_Linedefs, LineDefsAt, 14),
              Lump(STR_LINEDEFS, LineDefsAt + 14, 14)>>,
            <<Lump(N_MAP01, 0, 0), Lump(STR_VERTEXES, VertexesAt, 12),
              Lump(N_vertexes, VertexesAt + 4, 8), Lump(STR_LINEDEFS, LineDefsAt + 42, 14),
              Lump(N_Linedefs, LineDefsAt, 14), Lump(STR_THINGS, ThingsAt, 10)>>}}

Inputs == MapInputs \cup ContentInputs \cup HeaderInputs \cup MagicInputs \cup LookupInputs

\* the selectors the callers pass
EpisodeNrs == {1}
MapNrs == {1, 2}

----------------------------------------------------------------------------
(* The archive: construction and the calls on it *)

Call(op, episodeNr, mapNr) == [op |-> op, episodeNr |-> episodeNr, mapNr |-> mapNr]

Init ==
    /\ input \in Inputs
    /\ data = BufferOf(input)
    /\ wadType = "none"
    /\ error = "none"
    /\ call = Call("none", 0, 0)
    /\ gen = GenIdle
    /\ lumps = <<>>
    /\ mapLumps = <<>>
    /\ lineDefs = <<>>
    /\ things = <<>>
    /\ json = <<>>
    /\ streams = <<>>
    /\ procs = <<>>
    /\ ret = <<>>
    /\ page = NoPage

ErrorOf(threw) == IF threw THEN "RangeError" ELSE "none"

\* WADFileBase.fromBuffer(data)
FromBuffer ==
    /\ wadType = "none"
    /\ error = "none"
    /\ \E made \in {FromBufferType(data)} :
          /\ wadType' = made.value
          /\ error' = IF made.threw THEN "TypeError" ELSE "none"
    /\ call' = Call("fromBuffer", 0, 0)
    /\ UNCHANGED <<page, data, input, gen, lumps, mapLumps, lineDefs, things, json, streams, procs, ret>>

\* wad.enumerateLumps() and the first next(): up to the for loop
EnumerateLumps ==
    /\ wadType # "none"
    /\ gen' = LumpsHeader(data)
    /\ error' = ErrorOf(gen'.pc = "threw")
    /\ call' = Call("enumerateLumps", 0, 0)
    /\ lumps' = <<>>
    /\ mapLumps' = <<>>
    /\ lineDefs' = <<>>
    /\ things' = <<>>
    /\ UNCHANGED <<page, data, input, wadType, json, streams, procs, ret>>

\* next() on the generator: one pass of the for loop
EnumerateLumpsNext ==
    /\ gen.pc = "loop"
    /\ \E step \in {LumpsIteration(data, gen)} :
          /\ gen' = step.gen
          /\ lumps' = lumps \o step.yield
          /\ error' = ErrorOf(step.gen.pc = "threw")
    /\ UNCHANGED <<page, data, input, wadType, call, mapLumps, lineDefs, things, json, streams, procs, ret>>

\* what a map call leaves: the lump group and the records decoded from it
MapCall(op, episodeNr, mapNr, group, decoded, isLineDefs) ==
    /\ wadType # "none"
    /\ call' = Call(op, episodeNr, mapNr)
    /\ mapLumps' = group.value
    /\ lineDefs' = IF isLineDefs /\ ~group.threw THEN decoded.value ELSE <<>>
    /\ things' = IF ~isLineDefs /\ ~group.threw THEN decoded.value ELSE <<>>
    /\ error' = ErrorOf(group.threw \/ decoded.threw)
    /\ gen' = GenIdle
    /\ lumps' = <<>>
    /\ UNCHANGED <<page, data, input, wadType, json, streams, procs, ret>>

\* Array.from(wad.enumerateLineDefsOfDoom1Map(episodeNr, mapNr))
EnumerateLineDefsOfDoom1Map(episodeNr, mapNr) ==
    \E group \in {Doom1MapLumps(data, episodeNr, mapNr)} :
    \E decoded \in {EnumerateLineDefsOfMap(data, group.value)} :
        MapCall("enumerateLineDefsOfDoom1Map", episodeNr, mapNr, group, decoded, TRUE)

\* Array.from(wad.enumerateLineDefsOfDoom2Map(mapNr))
EnumerateLineDefsOfDoom2Map(mapNr) ==
    \E group \in {Doom2MapLumps(data, mapNr)} :
    \E decoded \in {EnumerateLineDefsOfMap(data, group.value)} :
        MapCall("enumerateLineDefsOfDoom2Map", 0, mapNr, group, decoded, TRUE)

\* Array.from(wad.enumerateThingsOfDoom1Map(episodeNr, mapNr))
EnumerateThingsOfDoom1Map(episodeNr, mapNr) ==
    \E group \in {Doom1MapLumps(data, episodeNr, mapNr)} :
    \E decoded \in {EnumerateThingsOfMap(data, group.value)} :
        MapCall("enumerateThingsOfDoom1Map", episodeNr, mapNr, group, decoded, FALSE)

\* Array.from(wad.enumerateThingsOfDoom2Map(mapNr))
EnumerateThingsOfDoom2Map(mapNr) ==
    \E group \in {Doom2MapLumps(data, mapNr)} :
    \E decoded \in {EnumerateThingsOfMap(data, group.value)} :
        MapCall("enumerateThingsOfDoom2Map", 0, mapNr, group, decoded, FALSE)

Next ==
    \/ FromBuffer
    \/ EnumerateLumps
    \/ EnumerateLumpsNext
    \/ \E episodeNr \in EpisodeNrs, mapNr \in MapNrs :
          EnumerateLineDefsOfDoom1Map(episodeNr, mapNr)
    \/ \E mapNr \in MapNrs : EnumerateLineDefsOfDoom2Map(mapNr)
    \/ \E episodeNr \in EpisodeNrs, mapNr \in MapNrs :
          EnumerateThingsOfDoom1Map(episodeNr, mapNr)
    \/ \E mapNr \in MapNrs : EnumerateThingsOfDoom2Map(mapNr)

Spec == Init /\ [][Next]_vars

----------------------------------------------------------------------------
(* A Thing on its own: one THINGS record decoded, then serialised *)

\* the largest type code and the largest flags value the inputs enumerate
MaxTypeCode == 3010
MaxFlags == 260

TypeCodes == ((0 - 3)..MaxTypeCode) \cup {0 - 32768, 32767}
FlagCodes == ((0 - MaxFlags)..MaxFlags) \cup {0 - 32768, 0 - 32761, 32767}

ThingInputs ==
    {[type |-> t, flags |-> 9] : t \in TypeCodes}
    \cup {[type |-> 1, flags |-> f] : f \in FlagCodes}

InitThing ==
    /\ input \in ThingInputs
    /\ data = Int16Record(<<5, 0 - 5, 90, input.type, input.flags>>)
    /\ wadType = "none"
    /\ error = "none"
    /\ call = Call("none", 0, 0)
    /\ gen = GenIdle
    /\ lumps = <<>>
    /\ mapLumps = <<>>
    /\ lineDefs = <<>>
    /\ things = <<>>
    /\ json = <<>>
    /\ streams = <<>>
    /\ procs = <<>>
    /\ ret = <<>>
    /\ page = NoPage

\* Thing.fromBufferStream(new BufferStream(data))
ThingDecode ==
    /\ call.op = "none"
    /\ \E newThing \in {ThingFromBufferStream(data, 0)} :
          /\ things' = newThing.value
          /\ error' = ErrorOf(newThing.threw)
    /\ call' = Call("Thing.fromBufferStream", 0, 0)
    /\ UNCHANGED <<page, data, input, wadType, gen, lumps, mapLumps, lineDefs, json, streams, procs, ret>>

\* thing.toJSON()
ThingSerialise ==
    /\ things # <<>>
    /\ json = <<>>
    /\ streams = <<>>
    /\ procs = <<>>
    /\ ret = <<>>
    /\ json' = <<ThingToJSON(things[1])>>
    /\ call' = Call("Thing.toJSON", 0, 0)
    /\ UNCHANGED <<page, data, input, wadType, error, gen, lumps, mapLumps, lineDefs, things, streams, procs, ret>>

NextThing == ThingDecode \/ ThingSerialise

SpecThing == InitThing /\ [][NextThing]_vars

----------------------------------------------------------------------------
(* A BufferStream on its own: position assignments and reads *)

\* the longest buffer of the stream inputs
MaxBuffer == 3

\* buffers of distinct bytes, the empty one included
StreamBuffers == {[k \in 1..n |-> 16 + k] : n \in 0..MaxBuffer}

\* the values assigned to position: negative, inside, at and beyond the end
PositionValues == (0 - MaxBuffer - 2)..(MaxBuffer + 2)

\* the counts passed to read
ReadCounts == 0..(MaxBuffer + 2)

\* new BufferStream(buf): `_position = 0`
NewBufferStream == [position |-> 0]

InitStream ==
    /\ data \in StreamBuffers
    /\ input = Len(data)
    /\ wadType = "none"
    /\ error = "none"
    /\ call = Call("none", 0, 0)
    /\ gen = GenIdle
    /\ lumps = <<>>
    /\ mapLumps = <<>>
    /\ lineDefs = <<>>
    /\ things = <<>>
    /\ json = <<>>
    /\ streams = <<NewBufferStream>>
    /\ procs = <<>>
    /\ ret = <<>>
    /\ page = NoPage

\* stream.position = value
StreamSetPosition(value) ==
    /\ streams' = [streams EXCEPT ![1].position = SetPosition(data, value)]
    /\ ret' = <<>>
    /\ call' = Call("position", 0, 0)
    /\ UNCHANGED <<page, data, input, wadType, error, gen, lumps, mapLumps, lineDefs, things,
                   json, procs>>

\* stream.read(count)
StreamRead(count) ==
    /\ \E r \in {Read(data, streams[1].position, count)} :
          /\ streams' = [streams EXCEPT ![1].position = r.position]
          /\ ret' = <<[count |-> count, from |-> streams[1].position, data |-> r.data]>>
    /\ call' = Call("read", 0, 0)
    /\ UNCHANGED <<page, data, input, wadType, error, gen, lumps, mapLumps, lineDefs, things,
                   json, procs>>

NextStream ==
    \/ \E value \in PositionValues : StreamSetPosition(value)
    \/ \E count \in ReadCounts : StreamRead(count)

SpecStream == InitStream /\ [][NextStream]_vars

----------------------------------------------------------------------------
(* Several generators on one archive, their next() calls interleaved *)

\* the most generators started on one archive
MaxGenerators == 2

\* the calls that start a generator: [op, episodeNr, mapNr]
GeneratorCalls == {
    Call("enumerateLumps", 0, 0),
    Call("enumerateLineDefsOfDoom1Map", 1, 1), Call("enumerateLineDefsOfDoom2Map", 0, 1),
    Call("enumerateThingsOfDoom1Map", 1, 1), Call("enumerateThingsOfDoom2Map", 0, 1),
    Call("enumerateThingsOfDoom2Map", 0, 2) }

\* one episodic map, two sequential maps, a directory cut short
InterleaveInputs == {
    Input(STR_IWAD, 4, DirectoryAt,
          <<Lump(N_E1M1, 0, 0), Lump(STR_VERTEXES, VertexesAt, 12),
            Lump(STR_LINEDEFS, LineDefsAt, 28), Lump(STR_THINGS, ThingsAt, 20)>>, 0),
    Input(STR_PWAD, 4, DirectoryAt,
          <<Lump(N_MAP01, 0, 0), Lump(STR_THINGS, ThingsAt, 10),
            Lump(Doom2MapLumpName(2), 0, 0), Lump(STR_THINGS, ThingsAt + 10, 20)>>, 0),
    Input(STR_IWAD, 3, DirectoryAt,
          <<Lump(N_MAP01, 0, 0), Lump(STR_VERTEXES, VertexesAt, 12),
            Lump(STR_LINEDEFS, LineDefsAt, 28)>>, 3) }

\* a generator object: the call that made it, where it is suspended, its
\* BufferStream (0 before it has one), the loop variables of enumerateLumps,
\* the array a map generator still iterates, and what it has yielded
Generator(started, pc, stream, i, lumpCount, pending, yielded) ==
    [call |-> started, pc |-> pc, stream |-> stream, i |-> i, lumpCount |-> lumpCount,
     pending |-> pending, yielded |-> yielded]

\* `new BufferStream(this._data)`: a new object each time
NewStreamShared(heap) == 1
NewStream(heap) == Len(heap) + 1

\* the heap with the stream `id` at `position`
WithStream(heap, id, position) ==
    [k \in 1..Max(Len(heap), id) |-> IF k = id THEN [position |-> position] ELSE heap[k]]

\* enumerateLumps from where the generator is suspended to its next yield
LumpsResume(buf, g) ==
    IF g.pc = "start"
    THEN Bind(LumpsHeader(buf), LAMBDA header :
            IF header.pc = "loop" THEN LumpsIteration(buf, header)
            ELSE [gen |-> header, yield |-> <<>>])
    ELSE LumpsIteration(buf, g)

\* Array.from(lineDefStream) / Array.from(thingStream) of a map generator
MapDecode(buf, started) ==
    Bind(IF started.op \in {"enumerateLineDefsOfDoom1Map", "enumerateThingsOfDoom1Map"}
         THEN Doom1MapLumps(buf, started.episodeNr, started.mapNr)
         ELSE Doom2MapLumps(buf, started.mapNr), LAMBDA group :
    IF group.threw THEN group
    ELSE IF started.op \in {"enumerateLineDefsOfDoom1Map", "enumerateLineDefsOfDoom2Map"}
    THEN EnumerateLineDefsOfMap(buf, group.value)
    ELSE EnumerateThingsOfMap(buf, group.value))

InitInterleave ==
    /\ input \in InterleaveInputs
    /\ data = BufferOf(input)
    /\ wadType = "none"
    /\ error = "none"
    /\ call = Call("none", 0, 0)
    /\ gen = GenIdle
    /\ lumps = <<>>
    /\ mapLumps = <<>>
    /\ lineDefs = <<>>
    /\ things = <<>>
    /\ json = <<>>
    /\ streams = <<>>
    /\ procs = <<>>
    /\ ret = <<>>
    /\ page = NoPage

\* wad.enumerate...(): the generator object, none of its body run yet
StartGenerator(started) ==
    /\ wadType # "none"
    /\ Len(procs) < MaxGenerators
    /\ procs' = Append(procs, Generator(started, "start", 0, 0, 0, <<>>, <<>>))
    /\ call' = started
    /\ UNCHANGED <<page, data, input, wadType, error, gen, lumps, mapLumps, lineDefs, things,
                   json, streams, ret>>

\* next() on an enumerateLumps generator: the first one constructs the
\* stream and reads the header, each one runs to the next yield or return
LumpsGeneratorNext(p) ==
    /\ p <= Len(procs)
    /\ procs[p].call.op = "enumerateLumps"
    /\ procs[p].pc \in {"start", "loop"}
    /\ \E id \in {IF procs[p].pc = "start" THEN NewStream(streams) ELSE procs[p].stream} :
       \E step \in {LumpsResume(data,
                        Gen(procs[p].pc,
                            IF procs[p].pc = "start" THEN 0 ELSE streams[id].position,
                            procs[p].i, procs[p].lumpCount))} :
          /\ streams' = WithStream(streams, id, step.gen.position)
          /\ procs' = [procs EXCEPT ![p] =
                Generator(@.call, step.gen.pc, id, step.gen.i, step.gen.lumpCount,
                          <<>>, @.yielded \o step.yield)]
          /\ error' = IF step.gen.pc = "threw" THEN "RangeError" ELSE error
    /\ UNCHANGED <<page, data, input, wadType, call, gen, lumps, mapLumps, lineDefs, things,
                   json, ret>>

\* next() on a map generator: the first one decodes the whole map into an
\* array, with streams of its own that it leaves behind, each one yields the
\* next element of the array or returns
MapGeneratorNext(p) ==
    /\ p <= Len(procs)
    /\ procs[p].call.op # "enumerateLumps"
    /\ procs[p].pc \in {"start", "loop"}
    /\ \E decoded \in {IF procs[p].pc = "start" THEN MapDecode(data, procs[p].call)
                       ELSE [value |-> procs[p].pending, threw |-> FALSE]} :
          /\ procs' = [procs EXCEPT ![p] =
                Generator(@.call,
                          IF decoded.threw THEN "threw"
                          ELSE IF decoded.value = <<>> THEN "done" ELSE "loop",
                          0, 0, 0,
                          IF decoded.value = <<>> THEN <<>> ELSE Tail(decoded.value),
                          IF decoded.value = <<>> THEN @.yielded
                          ELSE Append(@.yielded, decoded.value[1]))]
          /\ error' = IF decoded.threw THEN "RangeError" ELSE error
    /\ UNCHANGED <<page, data, input, wadType, call, gen, lumps, mapLumps, lineDefs, things,
                   json, streams, ret>>

NextInterleave ==
    \/ FromBuffer
    \/ \E started \in GeneratorCalls : StartGenerator(started)
    \/ \E p \in 1..MaxGenerators : LumpsGeneratorNext(p)
    \/ \E p \in 1..MaxGenerators : MapGeneratorNext(p)

SpecInterleave == InitInterleave /\ [][NextInterleave]_vars

----------------------------------------------------------------------------
(* The marker names on their own *)

\* the largest selectors of the name inputs
MaxEpisodeNr == 11
MaxMapNr == 100

NameInputs ==
    {[episodeNr |-> e, mapNr |-> m] : e \in 0..MaxEpisodeNr, m \in 0..MaxMapNr}

InitNames ==
    /\ input \in NameInputs
    /\ data = <<>>
    /\ wadType = "none"
    /\ error = "none"
    /\ call = Call("none", 0, 0)
    /\ gen = GenIdle
    /\ lumps = <<>>
    /\ mapLumps = <<>>
    /\ lineDefs = <<>>
    /\ things = <<>>
    /\ json = <<>>
    /\ streams = <<>>
    /\ procs = <<>>
    /\ ret = <<>>
    /\ page = NoPage

\* the first statement of _enumerateDoom1MapLumps
ComputeDoom1MapLumpName ==
    /\ call.op # "_enumerateDoom1MapLumps"
    /\ call' = Call("_enumerateDoom1MapLumps", input.episodeNr, input.mapNr)
    /\ ret' = <<Doom1MapLumpName(input.episodeNr, input.mapNr)>>
    /\ UNCHANGED <<page, data, input, wadType, error, gen, lumps, mapLumps, lineDefs, things,
                   json, streams, procs>>

\* the first statement of _enumerateDoom2MapLumps
ComputeDoom2MapLumpName ==
    /\ call.op # "_enumerateDoom2MapLumps"
    /\ call' = Call("_enumerateDoom2MapLumps", 0, input.mapNr)
    /\ ret' = <<Doom2MapLumpName(input.mapNr)>>
    /\ UNCHANGED <<page, data, input, wadType, error, gen, lumps, mapLumps, lineDefs, things,
                   json, streams, procs>>

NextNames == ComputeDoom1MapLumpName \/ ComputeDoom2MapLumpName

SpecNames == InitNames /\ [][NextNames]_vars

-----------------------------------------------------------------------------
(* One directory entry: Lump.fromBufferStream on any 8-byte name field *)

NameFieldBytes == {0, 65, 128}

NameFields == [1..8 -> NameFieldBytes]

LumpEntryInputs == {LE32(12) \o LE32(4) \o field : field \in NameFields}

InitLump ==
    /\ data \in LumpEntryInputs
    /\ input = SubSeq(data, 9, 16)
    /\ wadType = "none"
    /\ error = "none"
    /\ call = Call("none", 0, 0)
    /\ gen = GenIdle
    /\ lumps = <<>>
    /\ mapLumps = <<>>
    /\ lineDefs = <<>>
    /\ things = <<>>
    /\ json = <<>>
    /\ streams = <<>>
    /\ procs = <<>>
    /\ ret = <<>>
    /\ page = NoPage

\* Lump.fromBufferStream(stream) with the stream at the start of the entry
LumpDecode ==
    /\ call.op = "none"
    /\ ret' = LumpFromBufferStream(data, 0).value
    /\ call' = Call("fromBufferStream", 0, 0)
    /\ UNCHANGED <<page, data, input, wadType, error, gen, lumps, mapLumps, lineDefs, things,
                   json, streams, procs>>

NextLump == LumpDecode

SpecLump == InitLump /\ [][NextLump]_vars

-----------------------------------------------------------------------------
(* The length of a line segment: LineDefs.length *)

Abs(a) == IF a < 0 THEN 0 - a ELSE a

Times(base, exponent) == base * exponent
RECURSIVE Pow(_, _)
Pow(base, exponent) == IF exponent = 0 THEN 1 ELSE base * Pow(base, exponent - 1)

\* the largest r with r * r <= n, searched between lo and hi
RECURSIVE FloorRoot(_, _, _)
FloorRoot(n, lo, hi) ==
    IF lo >= hi THEN lo
    ELSE Bind((lo + hi + 1) \div 2, LAMBDA mid :
            IF mid * mid <= n THEN FloorRoot(n, mid, hi) ELSE FloorRoot(n, lo, mid - 1))

\* Math.sqrt(n) of an integer n in 0..2^31-1, the real number written as the
\* largest integer below it and what its square lacks to n
Sqrt(n) ==
    Bind(FloorRoot(n, 0, 46340), LAMBDA r : [floor |-> r, rest |-> n - r * r])

LineDefsLength(lineDef) ==
    Bind(Abs(lineDef.start.x - lineDef.end.x), LAMBDA a :
    Bind(Abs(lineDef.start.y - lineDef.end.y), LAMBDA b :
        Sqrt(Pow(a, 2) + Pow(b, 2))))

MaxCoordinate == 3

Coordinates == ((0 - MaxCoordinate)..MaxCoordinate) \cup {0 - 16384, 16383}

LengthInputs ==
    {[start |-> [x |-> x1, y |-> y1], end |-> [x |-> x2, y |-> y2]] :
        x1 \in Coordinates, y1 \in Coordinates, x2 \in Coordinates, y2 \in Coordinates}

InitLength ==
    /\ input \in LengthInputs
    /\ data = <<>>
    /\ wadType = "none"
    /\ error = "none"
    /\ call = Call("none", 0, 0)
    /\ gen = GenIdle
    /\ lumps = <<>>
    /\ mapLumps = <<>>
    /\ lineDefs = <<input>>
    /\ things = <<>>
    /\ json = <<>>
    /\ streams = <<>>
    /\ procs = <<>>
    /\ ret = <<>>
    /\ page = NoPage

\* lineDef.length
GetLength ==
    /\ call.op = "none"
    /\ ret' = <<LineDefsLength(lineDefs[1])>>
    /\ call' = Call("length", 0, 0)
    /\ UNCHANGED <<page, data, input, wadType, error, gen, lumps, mapLumps, lineDefs, things,
                   json, streams, procs>>

NextLength == GetLength

SpecLength == InitLength /\ [][NextLength]_vars

-----------------------------------------------------------------------------
(* One enumeration, one loop pass at a time: the for loop of enumerateLumps,
   the while loop of the grouper and the while loops of the record decoders *)

StepInputs == Inputs

LineDefsOps == {"enumerateLineDefsOfDoom1Map", "enumerateLineDefsOfDoom2Map"}
ThingsOps == {"enumerateThingsOfDoom1Map", "enumerateThingsOfDoom2Map"}
Doom1Ops == {"enumerateLineDefsOfDoom1Map", "enumerateThingsOfDoom1Map"}
StepOps == {"enumerateLumps"} \cup LineDefsOps \cup ThingsOps

NoLump == Lump(<<>>, 0, 0)

\* where an enumeration is: the loop it runs (phase), the grouper's lumps,
\* marker index and offset, the group, and the lump, the stream position and
\* the vertex table of the record loop
Run(phase, allLumps, mapLumpIndex, offset, group, lump, position, vertexes) ==
    [phase |-> phase, allLumps |-> allLumps, mapLumpIndex |-> mapLumpIndex,
     offset |-> offset, group |-> group, lump |-> lump, position |-> position,
     vertexes |-> vertexes]

RunEnded(phase) == Run(phase, <<>>, 0, 0, <<>>, NoLump, 0, <<>>)

\* one pass of the grouper's `while (mapLumpIndex + offset < allLumps.length)`
GroupIteration(allLumps, mapLumpIndex, offset, isDoom1) ==
    IF ~(mapLumpIndex - 1 + offset < Len(allLumps))
    THEN [pc |-> "done", offset |-> offset]
    ELSE IF mapLumpIndex + offset + 1 > Len(allLumps)
    THEN [pc |-> "done", offset |-> offset + 1]
    ELSE IF isDoom1 /\ Doom1Terminator(allLumps[mapLumpIndex + offset + 1])
    THEN [pc |-> "done", offset |-> offset + 1]
    ELSE IF ~isDoom1 /\ Doom2Terminator(allLumps[mapLumpIndex + offset + 1])
    THEN [pc |-> "done", offset |-> offset + 1]
    ELSE [pc |-> "loop", offset |-> offset + 1]

\* the record read by one pass of a record loop
RecordFromBufferStream(phase, buf, position, vertexes) ==
    IF phase = "vertexes" THEN VertexFromBufferStream(buf, position)
    ELSE IF phase = "linedefs" THEN LineDefsFromBufferStream(buf, position, vertexes)
    ELSE ThingFromBufferStream(buf, position)

\* one pass of `while (stream.position < lump.position + lump.size)`
RecordIterationRewound(phase, buf, position, lump, vertexes) ==
    IF ~(position < lump.position + lump.size)
    THEN [pc |-> "done", position |-> position]
    ELSE Bind(RecordFromBufferStream(phase, buf, position, vertexes), LAMBDA newRecord :
            IF newRecord.threw THEN [pc |-> "threw", position |-> newRecord.position]
            ELSE IF newRecord.value # <<>>
            THEN [pc |-> "loop", position |-> SetPosition(buf, lump.position)]
            ELSE [pc |-> "done", position |-> newRecord.position])
RecordIteration(phase, buf, position, lump, vertexes) ==
    IF ~(position < lump.position + lump.size)
    THEN [pc |-> "done", position |-> position]
    ELSE Bind(RecordFromBufferStream(phase, buf, position, vertexes), LAMBDA newRecord :
            IF newRecord.threw THEN [pc |-> "threw", position |-> newRecord.position]
            ELSE IF newRecord.value # <<>>
            THEN [pc |-> "loop", position |-> newRecord.position]
            ELSE [pc |-> "done", position |-> newRecord.position])

\* after the linedef or thing loop: the generator returns
AfterRecords(pc) == RunEnded(IF pc = "threw" THEN "threw" ELSE "done")

\* after the vertex loop: find LINEDEFS, seek to it
AfterVertexes(buf, r, pc) ==
    IF pc = "threw" THEN RunEnded("threw")
    ELSE Bind(FindLump(r.group, STR_LINEDEFS), LAMBDA lindefsLump :
        IF lindefsLump = <<>> THEN RunEnded("done")
        ELSE Run("linedefs", <<>>, 0, 0, r.group, lindefsLump[1],
                 SetPosition(buf, lindefsLump[1].position),
                 VertexLoop(buf, SetPosition(buf, r.lump.position), r.lump, <<>>).value))

\* after the grouper: find VERTEXES or THINGS in the group, seek to it
AfterGroup(buf, op, group) ==
    Bind(FindLump(group, IF op \in LineDefsOps THEN STR_VERTEXES ELSE STR_THINGS),
         LAMBDA found :
        IF found = <<>> THEN RunEnded("done")
        ELSE Run(IF op \in LineDefsOps THEN "vertexes" ELSE "things", <<>>, 0, 0, group,
                 found[1], SetPosition(buf, found[1].position), <<>>))

\* the group collected by `offset` passes after the marker, the last of
\* which ended the loop
GroupOf(r) == SubSeq(r.allLumps, r.mapLumpIndex + 1, r.mapLumpIndex + r.offset - 1)

\* after the for loop of enumerateLumps: the public generator returns, a
\* grouper looks for its marker
AfterLumps(buf, c, g) ==
    IF g.pc = "threw" THEN RunEnded("threw")
    ELSE IF c.op = "enumerateLumps" THEN RunEnded("done")
    ELSE Bind(AllLumps(buf).value, LAMBDA allLumps :
         Bind(FindIndex(allLumps, IF c.op \in Doom1Ops
                                  THEN Doom1MapLumpName(c.episodeNr, c.mapNr)
                                  ELSE Doom2MapLumpName(c.mapNr)), LAMBDA mapLumpIndex :
            IF mapLumpIndex = 0 THEN AfterGroup(buf, c.op, <<>>)
            ELSE Run("group", allLumps, mapLumpIndex, 0, <<>>, NoLump, 0, <<>>)))

InitSteps ==
    /\ input \in StepInputs
    /\ data = BufferOf(input)
    /\ wadType = "none"
    /\ error = "none"
    /\ call = Call("none", 0, 0)
    /\ gen = GenIdle
    /\ lumps = <<>>
    /\ mapLumps = <<>>
    /\ lineDefs = <<>>
    /\ things = <<>>
    /\ json = <<>>
    /\ streams = <<>>
    /\ procs = <<>>
    /\ ret = <<>>
    /\ page = NoPage

\* an enumeration is started and consumed to its end: the part up to the
\* for loop of enumerateLumps
StartEnumeration(op, episodeNr, mapNr) ==
    /\ wadType # "none"
    /\ procs = <<>>
    /\ call' = Call(op, episodeNr, mapNr)
    /\ \E g \in {LumpsHeader(data)} :
          /\ gen' = g
          /\ procs' = <<IF g.pc = "loop"
                        THEN Run("lumps", <<>>, 0, 0, <<>>, NoLump, 0, <<>>)
                        ELSE AfterLumps(data, call', g)>>
    /\ UNCHANGED <<page, data, input, wadType, error, lumps, mapLumps, lineDefs, things, json,
                   streams, ret>>

\* one pass of the for loop of enumerateLumps
LumpsStep ==
    /\ procs # <<>>
    /\ procs[1].phase = "lumps"
    /\ \E step \in {LumpsIteration(data, gen)} :
          /\ gen' = step.gen
          /\ procs' = IF step.gen.pc = "loop" THEN procs
                      ELSE <<AfterLumps(data, call, step.gen)>>
    /\ UNCHANGED <<page, data, input, wadType, error, call, lumps, mapLumps, lineDefs, things,
                   json, streams, ret>>

\* one pass of the while loop of a grouper
GroupStep ==
    /\ procs # <<>>
    /\ procs[1].phase = "group"
    /\ \E step \in {GroupIteration(procs[1].allLumps, procs[1].mapLumpIndex,
                                   procs[1].offset, call.op \in Doom1Ops)} :
          procs' = IF step.pc = "loop"
                   THEN <<[procs[1] EXCEPT !.offset = step.offset]>>
                   ELSE <<AfterGroup(data, call.op,
                                     GroupOf([procs[1] EXCEPT !.offset = step.offset]))>>
    /\ UNCHANGED <<page, data, input, wadType, error, call, gen, lumps, mapLumps, lineDefs,
                   things, json, streams, ret>>

\* one pass of the while loop over the VERTEXES lump
VertexStep ==
    /\ procs # <<>>
    /\ procs[1].phase = "vertexes"
    /\ \E step \in {RecordIteration("vertexes", data, procs[1].position, procs[1].lump,
                                    <<>>)} :
          procs' = IF step.pc = "loop"
                   THEN <<[procs[1] EXCEPT !.position = step.position]>>
                   ELSE <<AfterVertexes(data, procs[1], step.pc)>>
    /\ UNCHANGED <<page, data, input, wadType, error, call, gen, lumps, mapLumps, lineDefs,
                   things, json, streams, ret>>

\* one pass of the while loop over the LINEDEFS lump
LineDefStep ==
    /\ procs # <<>>
    /\ procs[1].phase = "linedefs"
    /\ \E step \in {RecordIteration("linedefs", data, procs[1].position, procs[1].lump,
                                    procs[1].vertexes)} :
          procs' = IF step.pc = "loop"
                   THEN <<[procs[1] EXCEPT !.position = step.position]>>
                   ELSE <<AfterRecords(step.pc)>>
    /\ UNCHANGED <<page, data, input, wadType, error, call, gen, lumps, mapLumps, lineDefs,
                   things, json, streams, ret>>

\* one pass of the while loop over the THINGS lump
ThingStep ==
    /\ procs # <<>>
    /\ procs[1].phase = "things"
    /\ \E step \in {RecordIteration("things", data, procs[1].position, procs[1].lump,
                                    <<>>)} :
          procs' = IF step.pc = "loop"
                   THEN <<[procs[1] EXCEPT !.position = step.position]>>
                   ELSE <<AfterRecords(step.pc)>>
    /\ UNCHANGED <<page, data, input, wadType, error, call, gen, lumps, mapLumps, lineDefs,
                   things, json, streams, ret>>

NextSteps ==
    \/ FromBuffer
    \/ \E op \in StepOps : StartEnumeration(op, 1, 1)
    \/ LumpsStep
    \/ GroupStep
    \/ VertexStep
    \/ LineDefStep
    \/ ThingStep

\* a generator that is consumed (Array.from, for-of) runs each loop pass
\* that is due
SpecSteps ==
    /\ InitSteps
    /\ [][NextSteps]_vars
    /\ WF_vars(LumpsStep)
    /\ WF_vars(GroupStep)
    /\ WF_vars(VertexStep)
    /\ WF_vars(LineDefStep)
    /\ WF_vars(ThingStep)

-----------------------------------------------------------------------------
(* The page: the Home component, its selectors, its two requests per
   reloadMap run and the thing selection *)

\* the most reloadMap runs of one behaviour
MaxRuns == 3

WadFiles == {"doom", "doom2"}
EpisodeValues == {"1", "2"}
MapValues == {"1", "2"}

\* what /api/linedefs and /api/things answer for the query parameters e, m, w
ThingCountOf(params) ==
    IF params.w = "doom2" THEN (IF params.m = "1" THEN 2 ELSE 0)
    ELSE (IF params.m = "1" THEN 1 ELSE 2)
LineDefsOf(params) == <<[of |-> params]>>
ThingsOf(params) == [i \in 1..ThingCountOf(params) |-> [of |-> params, nr |-> i]]

\* the answers a request can get: status 200, another status, no answer (0)
Statuses == {200, 204, 0}

\* array helpers: filter out one id, lodash uniq, includes
RECURSIVE Without(_, _)
Without(list, id) ==
    IF list = <<>> THEN <<>>
    ELSE IF Head(list) = id THEN Without(Tail(list), id)
    ELSE <<Head(list)>> \o Without(Tail(list), id)

Includes(list, id) == \E k \in 1..Len(list) : list[k] = id

RECURSIVE Uniq(_)
Uniq(list) ==
    IF list = <<>> THEN <<>>
    ELSE <<Head(list)>> \o Uniq(Without(Tail(list), Head(list)))

\* data.map((thing, thingIndex) => thingIndex)
ThingIndexesFromOne(list) == [k \in 1..Len(list) |-> k]
ThingIndexes(list) == [k \in 1..Len(list) |-> k - 1]

\* useMemo: thingsWithID, selectedThingsWithIDs, areAllThingsSelected
ThingsWithID(pg) == [k \in 1..Len(pg.things) |-> [id |-> k - 1, thing |-> pg.things[k]]]

SelectedThingsWithIDs(pg) ==
    SelectSeq(ThingsWithID(pg), LAMBDA t : Includes(pg.selectedThingIds, t.id))

AreAllThingsSelectedOrNone(pg) ==
    Len(SelectedThingsWithIDs(pg)) = Len(ThingsWithID(pg))
AreAllThingsSelected(pg) ==
    /\ Len(SelectedThingsWithIDs(pg)) > 0
    /\ Len(SelectedThingsWithIDs(pg)) = Len(ThingsWithID(pg))

\* the useState defaults
HomeState ==
    [episodeNr |-> "1", isLoadingLineDefs |-> FALSE, isLoadingThings |-> FALSE,
     lineDefs |-> <<>>, mapNr |-> "1", selectedThingIds |-> <<>>, things |-> <<>>,
     wadFile |-> "doom2"]

\* the query parameters the callbacks of a render close over
ParamsOf(pg) == [e |-> pg.episodeNr, m |-> pg.mapNr, w |-> pg.wadFile]

\* a reloadMap run: the parameters of its render, the request it awaits
\* ("linedefs", "things") or how it ended ("ended", "failed"), and the status
\* of its linedefs answer (-1 before it)
ReloadMapRun(params, pc, status) == [params |-> params, pc |-> pc, status |-> status]

InitPage ==
    /\ page = HomeState
    /\ input = <<>>
    /\ data = <<>>
    /\ wadType = "none"
    /\ error = "none"
    /\ call = Call("none", 0, 0)
    /\ gen = GenIdle
    /\ lumps = <<>>
    /\ mapLumps = <<>>
    /\ lineDefs = <<>>
    /\ things = <<>>
    /\ json = <<>>
    /\ streams = <<>>
    /\ procs = <<>>
    /\ ret = <<>>

\* reloadMap up to its first await: setLineDefs([]), setThings([]), then
\* reloadLineDefs up to its await: setIsLoadingLineDefs(true), axios.get
ReloadMap(pg) ==
    /\ Len(procs) < MaxRuns
    /\ page' = [pg EXCEPT !.lineDefs = <<>>, !.things = <<>>, !.isLoadingLineDefs = TRUE]
    /\ procs' = Append(procs, ReloadMapRun(ParamsOf(pg), "linedefs", 0 - 1))
    /\ ret' = <<>>
    /\ UNCHANGED <<data, input, wadType, error, gen, lumps, mapLumps, lineDefs, things,
                   json, streams>>

\* the effect of the first render
Mount ==
    /\ call.op = "none"
    /\ call' = Call("mount", 0, 0)
    /\ ReloadMap(page)

\* the selectors: a new value renders again, reloadMap is a new callback and
\* the effect runs it
SetWadFile(value) ==
    /\ call.op # "none"
    /\ value # page.wadFile
    /\ call' = Call("setWadFile", 0, 0)
    /\ ReloadMap([page EXCEPT !.wadFile = value])

SetEpisodeNr(value) ==
    /\ call.op # "none"
    /\ page.wadFile = "doom"
    /\ value # page.episodeNr
    /\ call' = Call("setEpisodeNr", 0, 0)
    /\ ReloadMap([page EXCEPT !.episodeNr = value])

SetMapNr(value) ==
    /\ call.op # "none"
    /\ value # page.mapNr
    /\ call' = Call("setMapNr", 0, 0)
    /\ ReloadMap([page EXCEPT !.mapNr = value])

\* the answer to the /api/linedefs request of run r: reloadLineDefs after its
\* await, then reloadMap goes on to reloadThings up to its await
LineDefsResponse(r, status) ==
    /\ r <= Len(procs)
    /\ procs[r].pc = "linedefs"
    /\ call' = Call("reloadLineDefs", 0, 0)
    /\ IF status = 200
       THEN /\ page' = [page EXCEPT !.lineDefs = LineDefsOf(procs[r].params),
                                    !.isLoadingLineDefs = FALSE,
                                    !.isLoadingThings = TRUE]
            /\ procs' = [procs EXCEPT ![r] = ReloadMapRun(procs[r].params, "things", status)]
       ELSE /\ page' = [page EXCEPT !.isLoadingLineDefs = FALSE]
            /\ procs' = [procs EXCEPT ![r] = ReloadMapRun(procs[r].params, "failed", status)]
    /\ ret' = <<>>
    /\ UNCHANGED <<data, input, wadType, error, gen, lumps, mapLumps, lineDefs, things,
                   json, streams>>

\* the answer to the /api/things request of run r: reloadThings after its await
ThingsResponse(r, status) ==
    /\ r <= Len(procs)
    /\ procs[r].pc = "things"
    /\ call' = Call("reloadThings", status, 0)
    /\ IF status = 200
       THEN /\ page' = [page EXCEPT
                           !.things = ThingsOf(procs[r].params),
                           !.selectedThingIds = ThingIndexes(ThingsOf(procs[r].params)),
                           !.isLoadingThings = FALSE]
            /\ procs' = [procs EXCEPT ![r].pc = "ended"]
       ELSE /\ page' = [page EXCEPT !.isLoadingThings = FALSE]
            /\ procs' = [procs EXCEPT ![r].pc = "failed"]
    /\ ret' = <<>>
    /\ UNCHANGED <<data, input, wadType, error, gen, lumps, mapLumps, lineDefs, things,
                   json, streams>>

\* onChange of the checkbox of the thing with this id
ToggleThing(id) ==
    /\ id < Len(page.things)
    /\ call' = Call("toggleThing", id, 0)
    /\ page' = [page EXCEPT !.selectedThingIds =
                   Uniq(IF Includes(page.selectedThingIds, id)
                        THEN Without(page.selectedThingIds, id)
                        ELSE Append(page.selectedThingIds, id))]
    /\ ret' = <<Includes(page.selectedThingIds, id)>>
    /\ UNCHANGED <<data, input, wadType, error, gen, lumps, mapLumps, lineDefs, things,
                   json, streams, procs>>

\* onChange of the select-all checkbox
SelectAll ==
    /\ call.op # "none"
    /\ call' = Call("selectAll", 0, 0)
    /\ page' = [page EXCEPT !.selectedThingIds =
                   IF ~AreAllThingsSelected(page)
                   THEN [k \in 1..Len(ThingsWithID(page)) |-> ThingsWithID(page)[k].id]
                   ELSE <<>>]
    /\ ret' = <<AreAllThingsSelected(page)>>
    /\ UNCHANGED <<data, input, wadType, error, gen, lumps, mapLumps, lineDefs, things,
                   json, streams, procs>>

NextPage ==
    \/ Mount
    \/ \E value \in WadFiles : SetWadFile(value)
    \/ \E value \in EpisodeValues : SetEpisodeNr(value)
    \/ \E value \in MapValues : SetMapNr(value)
    \/ \E r \in 1..MaxRuns, status \in Statuses : LineDefsResponse(r, status)
    \/ \E r \in 1..MaxRuns, status \in Statuses : ThingsResponse(r, status)
    \/ \E id \in 0..1 : ToggleThing(id)
    \/ SelectAll

SpecPage == InitPage /\ [][NextPage]_vars

-----------------------------------------------------------------------------
(* The /api/linedefs handler: getLineDefs *)

\* String.prototype.toLowerCase() on 7-bit characters
KeepCase(s) == s
ToLowerCase(s) == [i \in 1..Len(s) |-> IF s[i] \in 65..90 THEN s[i] + 32 ELSE s[i]]

\* Number(s) of a string of decimal digits
RECURSIVE NumberFrom(_, _, _)
NumberFrom(s, k, acc) ==
    IF k > Len(s) THEN acc ELSE NumberFrom(s, k + 1, 10 * acc + (s[k] - 48))

Number(s) == NumberFrom(s, 1, 0)

\* value || fallback for strings: undefined (<<>>) and '' are falsy
OrElse(value, fallback) ==
    IF value = <<>> THEN fallback ELSE IF value[1] = <<>> THEN fallback ELSE value[1]

STR_doom == <<100, 111, 111, 109>>
STR_doom2 == <<100, 111, 111, 109, 50>>
STR_1 == <<49>>

\* LineDefs.toJSON
LineDefsToJSON(lineDef) ==
    [start |-> [x |-> lineDef.start.x, y |-> lineDef.start.y],
     end |-> [x |-> lineDef.end.x, y |-> lineDef.end.y]]

\* readFile of a file of /wads, then fromBuffer and Array.from of the
\* enumeration: the list, or failed when the file is missing (<<>>), is no
\* WAD, or the enumeration throws
LineDefProvider(file, isDoom1, episodeNr, mapNr) ==
    IF file = <<>> THEN [value |-> <<>>, failed |-> TRUE]
    ELSE IF FromBufferType(file[1]).threw THEN [value |-> <<>>, failed |-> TRUE]
    ELSE Bind(IF isDoom1 THEN Doom1MapLumps(file[1], episodeNr, mapNr)
              ELSE Doom2MapLumps(file[1], mapNr), LAMBDA group :
         IF group.threw THEN [value |-> <<>>, failed |-> TRUE]
         ELSE Bind(EnumerateLineDefsOfMap(file[1], group.value), LAMBDA decoded :
                [value |-> decoded.value, failed |-> decoded.threw]))

\* the handler: the file it reads (<<>> for none), whether it failed, and
\* the bodies it passes to response.json
GetLineDefsOf(query, files) ==
    Bind(OrElse(<<Trim(ToLowerCase(OrElse(query.w, <<>>)))>>, STR_doom2), LAMBDA wad :
        IF wad = STR_doom
        THEN Bind(LineDefProvider(files.doom, TRUE,
                                  Number(OrElse(<<Trim(OrElse(query.e, <<>>))>>, STR_1)),
                                  Number(OrElse(<<Trim(OrElse(query.m, <<>>))>>, STR_1))),
                  LAMBDA provided :
                    [read |-> <<"doom.wad">>, failed |-> provided.failed,
                     json |-> IF provided.failed THEN <<>>
                              ELSE <<[k \in 1..Len(provided.value) |->
                                        LineDefsToJSON(provided.value[k])]>>])
        ELSE IF wad = STR_doom2
        THEN Bind(LineDefProvider(files.doom2, FALSE, 0,
                                  Number(OrElse(<<Trim(OrElse(query.m, <<>>))>>, STR_1))),
                  LAMBDA provided :
                    [read |-> <<"doom2.wad">>, failed |-> provided.failed,
                     json |-> IF provided.failed THEN <<>>
                              ELSE <<[k \in 1..Len(provided.value) |->
                                        LineDefsToJSON(provided.value[k])]>>])
        ELSE [read |-> <<>>, failed |-> FALSE, json |-> << <<>> >>])

\* the files of /wads: an episodic and a sequential archive with two maps
\* each, a file that is no WAD, and a missing file
DoomWad ==
    BufferOf(Input(STR_IWAD, 6, DirectoryAt,
                   <<Lump(N_E1M1, 0, 0), Lump(STR_VERTEXES, VertexesAt, 12),
                     Lump(STR_LINEDEFS, LineDefsAt, 14),
                     Lump(<<69, 49, 77, 50>>, 0, 0), Lump(STR_VERTEXES, VertexesAt, 12),
                     Lump(STR_LINEDEFS, LineDefsAt + 14, 14)>>, 0))

Doom2Wad ==
    BufferOf(Input(STR_IWAD, 6, DirectoryAt,
                   <<Lump(N_MAP01, 0, 0), Lump(STR_VERTEXES, VertexesAt, 12),
                     Lump(STR_LINEDEFS, LineDefsAt + 42, 14),
                     Lump(<<77, 65, 80, 48, 50>>, 0, 0), Lump(STR_VERTEXES, VertexesAt, 12),
                     Lump(STR_LINEDEFS, LineDefsAt, 28)>>, 0))

NoWad == BufferOf(Input(<<88, 88, 88, 88>>, 0, DirectoryAt, <<>>, 0))

\* query values: absent, empty, white space, the two names in several
\* spellings, other names
WadParams ==
    {<<>>, << <<>> >>, << <<32, 32>> >>, <<STR_doom>>, <<STR_doom2>>,
     << <<32, 68, 79, 79, 77, 32>> >>,              \* " DOOM "
     << <<68, 111, 111, 109, 50, 9>> >>,            \* "Doom2\t"
     << <<104, 101, 114, 101, 116, 105, 99>> >>,    \* "heretic"
     << <<100, 111, 111, 109, 51>> >>}              \* "doom3"

EpisodeParams == {<<>>, << <<>> >>, <<STR_1>>, << <<32, 49>> >>, << <<50>> >>}

MapParams == {<<>>, << <<>> >>, <<STR_1>>, << <<50>> >>, << <<32, 50, 32>> >>, << <<48, 50>> >>,
              << <<51>> >>}

HandlerInputs ==
    {[query |-> [w |-> w, e |-> e, m |-> m], files |-> [doom |-> d, doom2 |-> d2]] :
        w \in WadParams, e \in EpisodeParams, m \in MapParams,
        d \in {<<>>, <<DoomWad>>, <<NoWad>>}, d2 \in {<<>>, <<Doom2Wad>>, <<NoWad>>}}

InitHandler ==
    /\ input \in HandlerInputs
    /\ data = <<>>
    /\ wadType = "none"
    /\ error = "none"
    /\ call = Call("none", 0, 0)
    /\ gen = GenIdle
    /\ lumps = <<>>
    /\ mapLumps = <<>>
    /\ lineDefs = <<>>
    /\ things = <<>>
    /\ json = <<>>
    /\ streams = <<>>
    /\ procs = <<>>
    /\ ret = <<>>
    /\ page = NoPage

\* getLineDefs(request, response)
GetLineDefs ==
    /\ call.op = "none"
    /\ call' = Call("getLineDefs", 0, 0)
    /\ \E handled \in {GetLineDefsOf(input.query, input.files)} :
          /\ ret' = handled.read
          /\ json' = handled.json
          /\ error' = IF handled.failed THEN "rejected" ELSE "none"
    /\ UNCHANGED <<page, data, input, wadType, gen, lumps, mapLumps, lineDefs, things,
                   streams, procs>>

NextHandler == GetLineDefs

SpecHandler == InitHandler /\ [][NextHandler]_vars

----------------------------------------------------------------------------
(* The directory: enumerateLumps *)

\* enumerateLumps has run to its end
LumpsDone == call.op = "enumerateLumps" /\ gen.pc = "done"

\* the buffer holds the whole 12-byte header
HeaderWhole == Len(data) >= FILE_ID_SIZE + 8

\* the declared directory offset is the start of entry EntryNr + 1 of the
\* input's directory
AtEntry == input.dirOffset >= DirectoryAt /\ (input.dirOffset - DirectoryAt) % 16 = 0
EntryNr == (input.dirOffset - DirectoryAt) \div 16

\* the number of complete 16-byte entries between the declared directory
\* offset and the end of the buffer
EntriesThatFit ==
    IF input.dirOffset >= Len(data) THEN 0 ELSE (Len(data) - input.dirOffset) \div 16

\* C1: when the header declares N lumps and the buffer holds N complete
\* 16-byte entries from the declared offset on, enumerateLumps yields exactly
\* those N descriptors, in directory order, with the name, position and size
\* that were encoded
C1_DirectoryRoundTrip ==
    (/\ LumpsDone
     /\ HeaderWhole
     /\ AtEntry
     /\ input.count >= 0
     /\ input.count <= EntriesThatFit)
    => /\ error = "none"
       /\ lumps = SubSeq(input.dir, EntryNr + 1, EntryNr + input.count)

\* two entries declared and present, one of them with a negative position,
\* have been enumerated from the second entry of a three entry directory
C1_Witness ==
    /\ LumpsDone
    /\ HeaderWhole
    /\ AtEntry
    /\ EntryNr = 1
    /\ input.count = 2
    /\ EntriesThatFit = 2
    /\ Len(lumps) = 2
    /\ lumps[1].position # lumps[2].position

\* C2: when the header declares more lumps than complete 16-byte entries lie
\* between the directory offset and the end of the buffer, enumerateLumps
\* yields exactly the complete entries that fit, none when the offset is at
\* or past the end of the buffer, and raises no error
C2_TruncationTolerance ==
    (/\ LumpsDone
     /\ HeaderWhole
     /\ input.dirOffset >= 0
     /\ input.count > EntriesThatFit)
    => /\ error = "none"
       /\ Len(lumps) = EntriesThatFit
       /\ input.dirOffset >= Len(data) => lumps = <<>>
       /\ AtEntry => lumps = SubSeq(input.dir, EntryNr + 1, EntryNr + EntriesThatFit)

\* a directory whose last entry is cut short: three declared, one complete
\* entry from the declared offset on, one descriptor yielded
C2_Witness ==
    /\ LumpsDone
    /\ input.cut > 0
    /\ input.count = 3
    /\ AtEntry
    /\ EntryNr = 1
    /\ EntriesThatFit = 1
    /\ Len(lumps) = 1

----------------------------------------------------------------------------
(* The map lump groups *)

\* the directory of the input is the directory enumerateLumps decodes
DirectoryWhole ==
    input.count = Len(input.dir) /\ input.dirOffset = DirectoryAt /\ input.cut = 0

Doom1Call == call.op \in {"enumerateLineDefsOfDoom1Map", "enumerateThingsOfDoom1Map"}
Doom2Call == call.op \in {"enumerateLineDefsOfDoom2Map", "enumerateThingsOfDoom2Map"}

\* "E<e>M<m>" and "MAP<NN>" for the selectors of the call
EpisodicMarker == <<69, 48 + call.episodeNr, 77, 48 + call.mapNr>>
SequentialMarker == <<77, 65, 80, 48 + (call.mapNr \div 10), 48 + (call.mapNr % 10)>>

\* the place of the first lump of the directory with this name, 0 when none
FirstNamed(dir, name) ==
    IF \E k \in 1..Len(dir) : dir[k].name = name
    THEN CHOOSE k \in 1..Len(dir) :
            dir[k].name = name /\ \A j \in 1..(k - 1) : dir[j].name # name
    ELSE 0

\* the lumps after place `marker`, up to the first place in `ends` after it
GroupAfter(dir, marker, ends) ==
    SubSeq(dir, marker + 1,
           IF \E k \in ends : k > marker
           THEN (CHOOSE k \in ends : k > marker /\ \A j \in ends : j > marker => k <= j) - 1
           ELSE Len(dir))

\* a name that matches ^E[0-9], a name that starts with MAP
MatchesEDigit(name) == Len(name) >= 2 /\ name[1] = 69 /\ name[2] \in 48..57
StartsWithMAP(name) == Len(name) >= 3 /\ SubSeq(name, 1, 3) = <<77, 65, 80>>

UpperCasedTrimmed(name) == Trim(ToUpperCase(name))

\* C3 as stated: the group of E<e>M<m> ends before the next lump whose name
\* matches ^E[0-9]
C3_AsStated ==
    (Doom1Call /\ DirectoryWhole /\ FirstNamed(input.dir, EpisodicMarker) # 0)
    => mapLumps = GroupAfter(input.dir, FirstNamed(input.dir, EpisodicMarker),
                             {k \in 1..Len(input.dir) : MatchesEDigit(input.dir[k].name)})

\* C3: in the episodic convention the group of map E<e>M<m> is exactly the
\* lumps that follow the first lump named E<e>M<m>, up to but not including
\* the next lump whose upper-cased, trimmed name matches ^E[0-9], or up to
\* the end of the directory; the marker and the lumps before it are excluded
C3_EpisodicGroup ==
    (Doom1Call /\ DirectoryWhole /\ FirstNamed(input.dir, EpisodicMarker) # 0)
    => /\ error = "none"
       /\ mapLumps =
            GroupAfter(input.dir, FirstNamed(input.dir, EpisodicMarker),
                       {k \in 1..Len(input.dir) :
                            MatchesEDigit(UpperCasedTrimmed(input.dir[k].name))})

\* the group of E1M1 in [E1M1, VERTEXES, e1m2] is [VERTEXES]
C3_Witness ==
    /\ Doom1Call
    /\ DirectoryWhole
    /\ Len(input.dir) = 3
    /\ input.dir[1].name = EpisodicMarker
    /\ input.dir[3].name = N_e1m2
    /\ mapLumps = <<input.dir[2]>>
    /\ mapLumps[1].name = STR_VERTEXES

\* C4 as stated: the group of MAP<NN> ends before the next map marker lump,
\* a lump whose name starts with MAP
C4_AsStated ==
    (Doom2Call /\ DirectoryWhole /\ FirstNamed(input.dir, SequentialMarker) # 0)
    => mapLumps = GroupAfter(input.dir, FirstNamed(input.dir, SequentialMarker),
                             {k \in 1..Len(input.dir) : StartsWithMAP(input.dir[k].name)})

\* C4: in the sequential convention the group of map MAP<NN> is exactly the
\* lumps that follow the first lump named MAP<NN>, up to but not including
\* the next lump whose upper-cased, trimmed name starts with MAP, or up to
\* the end of the directory; the marker and the lumps before it are excluded
C4_SequentialGroup ==
    (Doom2Call /\ DirectoryWhole /\ FirstNamed(input.dir, SequentialMarker) # 0)
    => /\ error = "none"
       /\ mapLumps =
            GroupAfter(input.dir, FirstNamed(input.dir, SequentialMarker),
                       {k \in 1..Len(input.dir) :
                            StartsWithMAP(UpperCasedTrimmed(input.dir[k].name))})

\* the group of MAP01 in [MAP01, LINEDEFS, map02] is [LINEDEFS]
C4_Witness ==
    /\ Doom2Call
    /\ DirectoryWhole
    /\ Len(input.dir) = 3
    /\ input.dir[1].name = SequentialMarker
    /\ input.dir[3].name = N_map02
    /\ mapLumps = <<input.dir[2]>>
    /\ mapLumps[1].name = STR_LINEDEFS

----------------------------------------------------------------------------
(* The line segments of a map *)

LineDefsCall ==
    call.op \in {"enumerateLineDefsOfDoom1Map", "enumerateLineDefsOfDoom2Map"}

\* the place in the group of the first lump with this upper-cased, trimmed
\* name, 0 when the group has none
GroupLump(name) ==
    IF \E k \in 1..Len(mapLumps) : UpperCasedTrimmed(mapLumps[k].name) = name
    THEN CHOOSE k \in 1..Len(mapLumps) :
            /\ UpperCasedTrimmed(mapLumps[k].name) = name
            /\ \A j \in 1..(k - 1) : UpperCasedTrimmed(mapLumps[j].name) # name
    ELSE 0

\* the lump is `count` complete records of `width` bytes inside the buffer
CompleteRecords(lump, width, count) ==
    /\ lump.position >= 0
    /\ count >= 0
    /\ lump.size = width * count
    /\ lump.position + lump.size <= Len(data)

\* the little-endian signed 16-bit integer at a byte offset of the buffer
Int16At(at) ==
    IF data[at + 2] >= 128
    THEN data[at + 1] + 256 * data[at + 2] - 65536
    ELSE data[at + 1] + 256 * data[at + 2]

\* the vertex with this index in a VERTEXES lump
VertexOf(lump, index) ==
    [x |-> Int16At(lump.position + 4 * index), y |-> Int16At(lump.position + 4 * index + 2)]

\* the start (field 0) or end (field 1) vertex index of record i of a lump
VertexIndexOf(lump, i, field) == Int16At(lump.position + 14 * (i - 1) + 2 * field)

\* the group has a VERTEXES lump of v complete records and a LINEDEFS lump
\* of k complete records whose vertex indices are all in 0..v-1
Resolvable(v, k) ==
    /\ GroupLump(STR_VERTEXES) # 0
    /\ GroupLump(STR_LINEDEFS) # 0
    /\ CompleteRecords(mapLumps[GroupLump(STR_VERTEXES)], 4, v)
    /\ CompleteRecords(mapLumps[GroupLump(STR_LINEDEFS)], 14, k)
    /\ \A i \in 1..k : \A field \in {0, 1} :
          VertexIndexOf(mapLumps[GroupLump(STR_LINEDEFS)], i, field) \in 0..(v - 1)

RecordCounts == 0..4

\* C5: with a VERTEXES lump of v complete 4-byte records and a LINEDEFS lump
\* of k complete 14-byte records whose vertex indices are all in 0..v-1, the
\* line-segment enumeration yields exactly k segments in record order, the
\* i-th from the vertices at the start and end index of the i-th record and
\* from nothing else of the record
C5_GeometryResolution ==
    \A v \in RecordCounts : \A k \in RecordCounts :
        (LineDefsCall /\ Resolvable(v, k))
        => /\ error = "none"
           /\ Len(lineDefs) = k
           /\ \A i \in 1..k :
                lineDefs[i] =
                    [start |-> VertexOf(mapLumps[GroupLump(STR_VERTEXES)],
                                        VertexIndexOf(mapLumps[GroupLump(STR_LINEDEFS)], i, 0)),
                     end |-> VertexOf(mapLumps[GroupLump(STR_VERTEXES)],
                                      VertexIndexOf(mapLumps[GroupLump(STR_LINEDEFS)], i, 1))]

\* three vertices and two records: (0,0)-(10,0), then (10,0)-(-3,7)
C5_Witness ==
    /\ LineDefsCall
    /\ Resolvable(3, 2)
    /\ Len(lineDefs) = 2
    /\ lineDefs[1] = [start |-> [x |-> 0, y |-> 0], end |-> [x |-> 10, y |-> 0]]
    /\ lineDefs[2].end = [x |-> 0 - 3, y |-> 7]

\* C9: when the group of the selected map has no LINEDEFS lump, or has no
\* VERTEXES lump, the line-segment enumeration is empty and raises no error,
\* whichever other lumps the group holds
C9_MissingRequiredLump ==
    (LineDefsCall /\ (GroupLump(STR_LINEDEFS) = 0 \/ GroupLump(STR_VERTEXES) = 0))
    => lineDefs = <<>> /\ error = "none"

\* a group of VERTEXES and THINGS without LINEDEFS has no line segments
C9_Witness ==
    /\ LineDefsCall
    /\ Len(mapLumps) = 2
    /\ GroupLump(STR_VERTEXES) # 0
    /\ GroupLump(STR_THINGS) # 0
    /\ GroupLump(STR_LINEDEFS) = 0
    /\ lineDefs = <<>>

----------------------------------------------------------------------------
(* Construction and failures *)

\* the first 4 bytes of the buffer, all of it when it is shorter
FirstFour == SubSeq(data, 1, IF Len(data) < 4 THEN Len(data) ELSE 4)

\* C6: fromBuffer returns an archive of kind IWAD when the first 4 bytes are
\* "IWAD", of kind PWAD when they are "PWAD", and for every other buffer
\* fails with an invalid-format error and returns no archive
C6_AsStated ==
    call.op # "none"
    => IF FirstFour = STR_IWAD THEN wadType = "IWAD" /\ error # "TypeError"
       ELSE IF FirstFour = STR_PWAD THEN wadType = "PWAD" /\ error # "TypeError"
       ELSE wadType = "none" /\ error = "TypeError"

\* C10: once fromBuffer has constructed an archive, none of enumerateLumps,
\* enumerateLineDefsOfDoom1Map, enumerateLineDefsOfDoom2Map,
\* enumerateThingsOfDoom1Map and enumerateThingsOfDoom2Map raises an error,
\* whatever the buffer holds and whatever the selectors are
C10_NeverRaises == wadType # "none" => error = "none"

\* the thing enumeration has returned for a THINGS lump at a negative offset
C10_Witness ==
    /\ wadType # "none"
    /\ call.op = "enumerateThingsOfDoom2Map"
    /\ GroupLump(STR_THINGS) # 0
    /\ mapLumps[GroupLump(STR_THINGS)].position < 0
    /\ error = "none"

----------------------------------------------------------------------------
(* The symbolic names of a Thing *)

\* the bit of a two's complement flags value, for a power of two
FlagBitSet(flags, bit) == (flags \div bit) % 2 = 1

\* the code is the value of an entry of the thing-type table
TypeTableHas(code) == \E k \in 1..Len(DOOMThingType) : DOOMThingType[k][2] = code

\* C7: doomFlagNames holds exactly the names of the flag-table entries
\* whose bit is set in flags, each once and nothing else; bits of flags
\* without a table entry contribute nothing
C7_FlagNames ==
    json # <<>>
    => /\ \A k \in 1..Len(DOOMThingFlags) :
            FlagBitSet(input.flags, DOOMThingFlags[k][2])
            <=> \E j \in 1..Len(json[1].doomFlagNames) :
                    json[1].doomFlagNames[j] = DOOMThingFlags[k][1]
       /\ \A j \in 1..Len(json[1].doomFlagNames) :
            /\ \E k \in 1..Len(DOOMThingFlags) :
                    json[1].doomFlagNames[j] = DOOMThingFlags[k][1]
            /\ \A i \in 1..Len(json[1].doomFlagNames) :
                    json[1].doomFlagNames[i] = json[1].doomFlagNames[j] => i = j

\* flags 0x8007: the three skill names, and nothing for bit 15
C7_Witness ==
    /\ json # <<>>
    /\ input.flags = 0 - 32761
    /\ json[1].doomFlagNames = <<"Skill_1_and_2", "Skill_3", "Skill_4_and_5">>

\* C8: doomTypeName is the table name of the type code when the code is an
\* entry of the thing-type table, and none exactly when it is not
C8_AsStated ==
    json # <<>>
    => IF TypeTableHas(input.type)
       THEN /\ json[1].doomTypeName # <<>>
            /\ \E k \in 1..Len(DOOMThingType) :
                    /\ DOOMThingType[k][2] = input.type
                    /\ DOOMThingType[k][1] = json[1].doomTypeName[1]
       ELSE json[1].doomTypeName = <<>>

----------------------------------------------------------------------------
(* The cursor *)

\* C11: after any position assignments and read(n) calls on a BufferStream,
\* 0 <= position <= buffer.length
C11_AsStated ==
    \A s \in 1..Len(streams) :
        streams[s].position >= 0 /\ streams[s].position <= Len(data)

\* C12: from position p, read(n) returns exactly min(n, buffer.length - p)
\* bytes, the buffer bytes p .. p + that count - 1, and advances the position
\* by the number of bytes returned
C12_AsStated ==
    ret # <<>>
    => /\ Len(ret[1].data) = Min(ret[1].count, Len(data) - ret[1].from)
       /\ ret[1].data = [k \in 1..Len(ret[1].data) |-> data[ret[1].from + k]]
       /\ streams[1].position = ret[1].from + Len(ret[1].data)

----------------------------------------------------------------------------
(* A map that is not there *)

\* no lump of the directory has exactly the marker name of the call
MarkerAbsent ==
    \/ Doom1Call /\ FirstNamed(input.dir, EpisodicMarker) = 0
    \/ Doom2Call /\ FirstNamed(input.dir, SequentialMarker) = 0

\* C13: when no lump of the directory is named exactly E<e>M<m> or MAP<NN>,
\* the map lump group is empty and both the line-segment and the thing
\* enumeration of that map are empty, without error
C13_AbsentMarker ==
    (DirectoryWhole /\ MarkerAbsent)
    => mapLumps = <<>> /\ lineDefs = <<>> /\ things = <<>> /\ error = "none"

\* E1M2 is asked for in a directory that holds e1m2 followed by a lump
C13_Witness ==
    /\ DirectoryWhole
    /\ Doom1Call
    /\ MarkerAbsent
    /\ call.mapNr = 2
    /\ Len(input.dir) = 3
    /\ input.dir[1].name = N_e1m2
    /\ input.dir[2].name = STR_VERTEXES
    /\ mapLumps = <<>>

----------------------------------------------------------------------------
(* Interleaved generators *)

\* what the call yields when its generator runs alone on the input's archive
YieldedAlone(started) ==
    IF started.op = "enumerateLumps" THEN AllLumps(BufferOf(input)).value
    ELSE MapDecode(BufferOf(input), started).value

\* C14: generators on one archive whose steps are interleaved in any order
\* each yield the sequence they yield alone, and the buffer is unchanged
C14_Interleaving ==
    /\ data = BufferOf(input)
    /\ error = "none"
    /\ \A p \in 1..Len(procs) :
          /\ Len(procs[p].yielded) <= Len(YieldedAlone(procs[p].call))
          /\ procs[p].yielded
                = SubSeq(YieldedAlone(procs[p].call), 1, Len(procs[p].yielded))
          /\ procs[p].pc = "done" => procs[p].yielded = YieldedAlone(procs[p].call)

\* two enumerateLumps generators are suspended inside the directory, the
\* first after 3 lumps and the second after 1, each at its own position
C14_Witness ==
    /\ Len(procs) = 2
    /\ procs[1].call.op = "enumerateLumps"
    /\ procs[2].call.op = "enumerateLumps"
    /\ procs[1].pc = "loop"
    /\ procs[2].pc = "loop"
    /\ Len(procs[1].yielded) = 3
    /\ Len(procs[2].yielded) = 1
    /\ streams[procs[1].stream].position = streams[procs[2].stream].position + 32

----------------------------------------------------------------------------
(* The things of a map *)

ThingsCall ==
    call.op \in {"enumerateThingsOfDoom1Map", "enumerateThingsOfDoom2Map"}

\* the Thing of the 10 bytes at a byte offset of the buffer
ThingOf(at) ==
    [x |-> Int16At(at), y |-> Int16At(at + 2), angle |-> Int16At(at + 4),
     type |-> Int16At(at + 6), flags |-> Int16At(at + 8)]

\* the THINGS lump of the group starts in the buffer, which ends before the
\* lump's first record does
FirstThingCutShort ==
    /\ GroupLump(STR_THINGS) # 0
    /\ mapLumps[GroupLump(STR_THINGS)].size > 0
    /\ mapLumps[GroupLump(STR_THINGS)].position >= 0
    /\ mapLumps[GroupLump(STR_THINGS)].position <= Len(data)
    /\ mapLumps[GroupLump(STR_THINGS)].position + 10 > Len(data)

\* C15: with a THINGS lump of k complete 10-byte records inside the buffer
\* the thing enumeration yields exactly k things in record order, the i-th
\* from the five little-endian 16-bit fields x, y, angle, type, flags of the
\* i-th record; a record with a field read of fewer than 2 bytes gives none
C15_ThingRecords ==
    /\ \A k \in RecordCounts :
          (/\ ThingsCall
           /\ GroupLump(STR_THINGS) # 0
           /\ CompleteRecords(mapLumps[GroupLump(STR_THINGS)], 10, k))
          => /\ error = "none"
             /\ Len(things) = k
             /\ \A i \in 1..k :
                  things[i] = ThingOf(mapLumps[GroupLump(STR_THINGS)].position + 10 * (i - 1))
    /\ (ThingsCall /\ FirstThingCutShort) => (things = <<>> /\ error = "none")

\* three records decoded, the second with type 3004 and flags 0x8007
C15_Witness ==
    /\ ThingsCall
    /\ GroupLump(STR_THINGS) # 0
    /\ CompleteRecords(mapLumps[GroupLump(STR_THINGS)], 10, 3)
    /\ Len(things) = 3
    /\ things[1] = [x |-> 5, y |-> 0 - 5, angle |-> 90, type |-> 1, flags |-> 9]
    /\ things[2].type = 3004
    /\ things[3].angle = 270

\* the buffer ends inside the third field of the lump's first record
C15_WitnessCutShort ==
    /\ ThingsCall
    /\ FirstThingCutShort
    /\ mapLumps[GroupLump(STR_THINGS)].position + 5 = Len(data)
    /\ things = <<>>

----------------------------------------------------------------------------
(* The marker names *)

\* the decimal digits of a number below 1000, without padding
Decimal(n) ==
    IF n < 10 THEN <<48 + n>>
    ELSE IF n < 100 THEN <<48 + (n \div 10), 48 + (n % 10)>>
    ELSE <<48 + (n \div 100), 48 + ((n \div 10) % 10), 48 + (n % 10)>>

\* C16: the sequential marker name of map n is "MAP" followed by n as
\* exactly two zero-padded decimal digits for every n in 0..99, and the
\* episodic marker name of episode e and map m is "E" + e + "M" + m with no
\* padding
C16_MarkerNames ==
    /\ (call.op = "_enumerateDoom2MapLumps" /\ call.mapNr \in 0..99)
       => ret = <<(<<77, 65, 80, 48 + (call.mapNr \div 10), 48 + (call.mapNr % 10)>>)>>
    /\ call.op = "_enumerateDoom1MapLumps"
       => ret = <<(<<69>> \o Decimal(call.episodeNr) \o <<77>> \o Decimal(call.mapNr))>>

\* the name of map 7 is MAP07
C16_Witness ==
    /\ call.op = "_enumerateDoom2MapLumps"
    /\ call.mapNr = 7
    /\ ret = <<(<<77, 65, 80, 48, 55>>)>>

\* the name of episode 10, map 3 is E10M3
C16_WitnessEpisodic ==
    /\ call.op = "_enumerateDoom1MapLumps"
    /\ call.episodeNr = 10
    /\ call.mapNr = 3
    /\ ret = <<(<<69, 49, 48, 77, 51>>)>>

----------------------------------------------------------------------------
(* Lumps that end inside a record, records that point outside the table *)

\* the lump lies inside the buffer
InsideBuffer(lump) ==
    lump.position >= 0 /\ lump.size >= 0 /\ lump.position + lump.size <= Len(data)

\* C17: decoding the records of a lump that lies inside the buffer yields
\* exactly floor(size / recordWidth) records, a final partial record being
\* dropped and not completed with the bytes that follow the lump
C17_AsStated ==
    /\ (ThingsCall /\ GroupLump(STR_THINGS) # 0
            /\ InsideBuffer(mapLumps[GroupLump(STR_THINGS)]))
       => Len(things) = mapLumps[GroupLump(STR_THINGS)].size \div 10
    /\ (LineDefsCall /\ GroupLump(STR_VERTEXES) # 0 /\ GroupLump(STR_LINEDEFS) # 0
            /\ InsideBuffer(mapLumps[GroupLump(STR_LINEDEFS)]))
       => Len(lineDefs) <= mapLumps[GroupLump(STR_LINEDEFS)].size \div 14

\* record i of the LINEDEFS lump has a vertex index outside 0..v-1
OutOfRange(v, i) ==
    \E field \in {0, 1} :
        VertexIndexOf(mapLumps[GroupLump(STR_LINEDEFS)], i, field) \notin 0..(v - 1)

\* the number of records before the first of k with an index outside 0..v-1
RecordsBeforeFirstOutOfRange(v, k) ==
    IF \E i \in 1..k : OutOfRange(v, i)
    THEN (CHOOSE i \in 1..k : OutOfRange(v, i) /\ \A j \in 1..(i - 1) : ~OutOfRange(v, j)) - 1
    ELSE k

\* C18: a record whose start or end vertex index is outside
\* 0..vertexTable.length-1, negative indices included, gives none and ends the
\* line-segment enumeration: the result is exactly the segments of the
\* records before the first such record, and nothing of any later record
C18_OutOfRangeStops ==
    \A v \in RecordCounts : \A k \in RecordCounts :
        (/\ LineDefsCall
         /\ GroupLump(STR_VERTEXES) # 0
         /\ GroupLump(STR_LINEDEFS) # 0
         /\ CompleteRecords(mapLumps[GroupLump(STR_VERTEXES)], 4, v)
         /\ CompleteRecords(mapLumps[GroupLump(STR_LINEDEFS)], 14, k))
        => /\ error = "none"
           /\ Len(lineDefs) = RecordsBeforeFirstOutOfRange(v, k)
           /\ \A i \in 1..Len(lineDefs) :
                lineDefs[i] =
                    [start |-> VertexOf(mapLumps[GroupLump(STR_VERTEXES)],
                                        VertexIndexOf(mapLumps[GroupLump(STR_LINEDEFS)], i, 0)),
                     end |-> VertexOf(mapLumps[GroupLump(STR_VERTEXES)],
                                      VertexIndexOf(mapLumps[GroupLump(STR_LINEDEFS)], i, 1))]

\* four records over three vertices: the third has start index -1, so the
\* two segments before it are the result and the valid fourth is not decoded
C18_Witness ==
    /\ LineDefsCall
    /\ GroupLump(STR_VERTEXES) # 0
    /\ GroupLump(STR_LINEDEFS) # 0
    /\ CompleteRecords(mapLumps[GroupLump(STR_VERTEXES)], 4, 3)
    /\ CompleteRecords(mapLumps[GroupLump(STR_LINEDEFS)], 14, 4)
    /\ VertexIndexOf(mapLumps[GroupLump(STR_LINEDEFS)], 3, 0) = 0 - 1
    /\ ~OutOfRange(3, 4)
    /\ Len(lineDefs) = 2

----------------------------------------------------------------------------
(* The signs of the decoded integers *)

\* C19 as stated: the type code and the flags of a decoded Thing are the
\* unsigned 16-bit values of their two bytes, in 0..65535
C19_AsStated ==
    things # <<>>
    => /\ things[1].type = data[7] + 256 * data[8]
       /\ things[1].flags = data[9] + 256 * data[10]
       /\ things[1].type \in 0..65535
       /\ things[1].flags \in 0..65535

\* C19: the type code and the flags of a decoded Thing are the signed, two's
\* complement 16-bit values of their two little-endian bytes, in
\* -32768..32767
C19_SignedTypeAndFlags ==
    things # <<>>
    => /\ things[1].type = Int16At(6)
       /\ things[1].flags = Int16At(8)
       /\ things[1].type \in (0 - 32768)..32767
       /\ things[1].flags \in (0 - 32768)..32767
       /\ things[1].type = input.type
       /\ things[1].flags = input.flags

\* the flags bytes 07 80 are decoded as -32761
C19_Witness ==
    /\ things # <<>>
    /\ data[9] = 7
    /\ data[10] = 128
    /\ things[1].flags = 0 - 32761

\* the little-endian signed 32-bit integer at a byte offset of the buffer
Int32At(at) ==
    data[at + 1] + 256 * data[at + 2] + 65536 * data[at + 3]
    + 16777216 * (IF data[at + 4] >= 128 THEN data[at + 4] - 256 ELSE data[at + 4])

\* enumerateLumps has read the header and is in or past its loop
HeaderRead ==
    call.op = "enumerateLumps" /\ HeaderWhole /\ gen.pc \in {"loop", "done"}

\* C20 as stated: the position and the size of every lump, and the lump
\* count and the directory offset of the header, are unsigned: never negative
C20_AsStated ==
    HeaderRead
    => /\ gen.lumpCount >= 0
       /\ (gen.pc = "loop" /\ gen.i = 0) => gen.position >= 0
       /\ \A k \in 1..Len(lumps) : lumps[k].position >= 0 /\ lumps[k].size >= 0

\* C20: the position and the size of every lump are the signed, two's
\* complement 32-bit values of the four little-endian bytes of their entry,
\* and the header's lump count and directory offset are read as signed
\* 32-bit values as well
C20_SignedInt32 ==
    HeaderRead
    => /\ gen.lumpCount = Int32At(4)
       /\ (gen.pc = "loop" /\ gen.i = 0) => gen.position = Min(Int32At(8), Len(data))
       /\ AtEntry => \A k \in 1..Len(lumps) :
            /\ lumps[k].position = Int32At(input.dirOffset + 16 * (k - 1))
            /\ lumps[k].size = Int32At(input.dirOffset + 16 * (k - 1) + 4)

\* the entry bytes FD FF FF FF of a position are decoded as -3
C20_Witness ==
    /\ HeaderRead
    /\ AtEntry
    /\ Len(lumps) >= 1
    /\ data[input.dirOffset + 1] = 253
    /\ data[input.dirOffset + 4] = 255
    /\ lumps[1].position = 0 - 3
    /\ lumps[1].size = 70000

-----------------------------------------------------------------------------
(* C21: the name of a lump descriptor *)

RECURSIVE LastNonNul(_, _)
LastNonNul(field, length) ==
    IF length > 0 /\ field[length] = 0 THEN LastNonNul(field, length - 1) ELSE length

WithoutTrailingNulBytes(field) == SubSeq(field, 1, LastNonNul(field, Len(field)))

LumpDecoded == call.op = "fromBufferStream" /\ Len(ret) = 1

\* C21: every lump descriptor has a name of at most 8 characters that does
\* not end with NUL, and the name is the 8-byte name field with its
\* trailing NUL bytes removed and every other byte kept.
C21_AsStated ==
    LumpDecoded =>
        /\ Len(ret[1].name) <= 8
        /\ (ret[1].name # <<>> => ret[1].name[Len(ret[1].name)] # 0)
        /\ ret[1].name = WithoutTrailingNulBytes(input)

\* The part of C21 the code keeps for every field: at most 8 characters,
\* no NUL at the end, and for a field of 7-bit bytes exactly the field
\* without its trailing NUL bytes.
C21_SevenBitNames ==
    LumpDecoded =>
        /\ Len(ret[1].name) <= 8
        /\ (ret[1].name # <<>> => ret[1].name[Len(ret[1].name)] # 0)
        /\ ((\A k \in 1..8 : input[k] < 128) =>
                ret[1].name = WithoutTrailingNulBytes(input))

C21_Witness ==
    /\ LumpDecoded
    /\ input = <<65, 0, 65, 0, 0, 0, 0, 0>>
    /\ ret[1].name = <<65, 0, 65>>

-----------------------------------------------------------------------------
(* C22: the group is a run of the directory after the first marker *)

MarkerOfCall == IF Doom1Call THEN EpisodicMarker ELSE SequentialMarker

Occurrences(dir, name) == {k \in 1..Len(dir) : dir[k].name = name}

\* C22: when the marker name occurs more than once in the directory the
\* group starts after its first occurrence, and in both conventions the
\* group is a contiguous run of the directory: the lumps right after the
\* first marker, each once, in directory order.
C22_ContiguousRun ==
    ((Doom1Call \/ Doom2Call) /\ DirectoryWhole /\ FirstNamed(input.dir, MarkerOfCall) # 0)
    => \E first \in Occurrences(input.dir, MarkerOfCall) :
          /\ \A k \in Occurrences(input.dir, MarkerOfCall) : first <= k
          /\ first + Len(mapLumps) <= Len(input.dir)
          /\ \A j \in 1..Len(mapLumps) : mapLumps[j] = input.dir[first + j]

\* the marker is the first and the third lump, the group is the second lump
C22_Witness ==
    /\ Doom1Call
    /\ DirectoryWhole
    /\ Occurrences(input.dir, MarkerOfCall) = {1, 3}
    /\ mapLumps = <<input.dir[2]>>

\* the marker is the first and the second lump: the group is empty, the
\* lump after the second marker is not collected
C22_WitnessRepeated ==
    /\ Doom2Call
    /\ DirectoryWhole
    /\ Occurrences(input.dir, MarkerOfCall) = {1, 2}
    /\ Len(input.dir) = 3
    /\ ~StartsWithMAP(UpperCasedTrimmed(input.dir[3].name))
    /\ mapLumps = <<>>

-----------------------------------------------------------------------------
(* C23: what ends a sequential group *)

\* the place right after the group of the call, when the marker is there
PlaceAfterGroup == FirstNamed(input.dir, SequentialMarker) + Len(mapLumps) + 1

\* C23 as stated: a following lump ends the group exactly when its name as
\* stored in the directory starts with MAP
C23_AsStated ==
    (Doom2Call /\ DirectoryWhole /\ FirstNamed(input.dir, SequentialMarker) # 0)
    => /\ \A j \in 1..Len(mapLumps) : ~StartsWithMAP(mapLumps[j].name)
       /\ (PlaceAfterGroup <= Len(input.dir) => StartsWithMAP(input.dir[PlaceAfterGroup].name))

\* C23: in the sequential convention a following lump ends the group exactly
\* when its upper-cased, trimmed name starts with MAP: no collected lump has
\* such a name, and the lump after the group, when there is one, has.
C23_NormalisedPrefix ==
    (Doom2Call /\ DirectoryWhole /\ FirstNamed(input.dir, SequentialMarker) # 0)
    => /\ \A j \in 1..Len(mapLumps) :
             ~StartsWithMAP(UpperCasedTrimmed(mapLumps[j].name))
       /\ (PlaceAfterGroup <= Len(input.dir) =>
             StartsWithMAP(UpperCasedTrimmed(input.dir[PlaceAfterGroup].name)))

\* [MAP01, map02, THINGS]: the lump stored as map02 ends the group of MAP01
C23_Witness ==
    /\ Doom2Call
    /\ DirectoryWhole
    /\ Len(input.dir) = 3
    /\ input.dir[1].name = SequentialMarker
    /\ input.dir[2].name = N_map02
    /\ input.dir[3].name = STR_THINGS
    /\ mapLumps = <<>>

-----------------------------------------------------------------------------
(* C25: which lump of the group is decoded *)

\* the places in the group of the lumps with this upper-cased, trimmed name
Matches(name) == {k \in 1..Len(mapLumps) : UpperCasedTrimmed(mapLumps[k].name) = name}

\* the first of them in directory order
FirstMatch(name) == CHOOSE k \in Matches(name) : \A j \in Matches(name) : k <= j

\* record i (from 1) of the first LINEDEFS match, resolved in the first
\* VERTEXES match
SegmentOfFirstMatches(i) ==
    [start |-> VertexOf(mapLumps[FirstMatch(STR_VERTEXES)],
                        VertexIndexOf(mapLumps[FirstMatch(STR_LINEDEFS)], i, 0)),
     end |-> VertexOf(mapLumps[FirstMatch(STR_VERTEXES)],
                      VertexIndexOf(mapLumps[FirstMatch(STR_LINEDEFS)], i, 1))]

C25_WitnessLineDefs ==
    /\ LineDefsCall
    /\ Matches(STR_VERTEXES) = {1, 2}
    /\ Matches(STR_LINEDEFS) = {3, 4}
    /\ mapLumps[1].name = N_vertexes
    /\ lineDefs = <<[start |-> [x |-> 10, y |-> 0], end |-> [x |-> 0 - 3, y |-> 7]]>>

-----------------------------------------------------------------------------
(* C26: the length of a segment is the Euclidean distance of its endpoints *)

LengthRead == call.op = "length" /\ Len(ret) = 1

\* the square of a length
Squared(length) == length.floor * length.floor + length.rest

Swapped(lineDef) == [start |-> lineDef.end, end |-> lineDef.start]

DeltaX == input.start.x - input.end.x
DeltaY == input.start.y - input.end.y

C26_WitnessFar ==
    /\ LengthRead
    /\ input.start = [x |-> 16383, y |-> 0 - 16384]
    /\ input.end = [x |-> 0 - 16384, y |-> 16383]
    /\ ret[1].floor = 46339
    /\ Squared(ret[1]) = 2147352578

-----------------------------------------------------------------------------
(* C24: every enumeration comes to an end *)

InLoop == procs # <<>> /\ procs[1].phase \notin {"done", "threw"}

\* C24: every enumeration terminates for every buffer and selector: once
\* started, it is at some point out of all of its loops and stays so, also
\* for negative or oversized lump counts, directory offsets, lump offsets
\* and lump sizes.
C24_Terminates == <>[](~InLoop)

\* the enumeration has ended after a vertex loop over a lump at a negative
\* offset and a linedef loop
C24_Witness ==
    /\ call.op \in LineDefsOps
    /\ procs # <<>>
    /\ procs[1].phase = "done"
    /\ \E k \in 1..Len(input.dir) :
          input.dir[k].name = STR_VERTEXES /\ input.dir[k].position < 0
    /\ \E k \in 1..Len(input.dir) :
          input.dir[k].name = STR_LINEDEFS /\ input.dir[k].size = 56

\* it has ended for a declared lump count above the number of entries and a
\* negative directory offset
C24_WitnessHeader ==
    /\ call.op = "enumerateLumps"
    /\ procs # <<>>
    /\ procs[1].phase = "done"
    /\ input.count > Len(input.dir)
    /\ input.dirOffset < 0
    /\ gen.i > 0

-----------------------------------------------------------------------------
(* C27: the data shown after overlapping reloadMap runs *)

Mounted == procs # <<>>

\* no request is outstanding
NoRequestOutstanding == \A r \in 1..Len(procs) : procs[r].pc \notin {"linedefs", "things"}

LatestRun == procs[Len(procs)]

\* C27 as stated: after any selector changes and any arrival order of the
\* answers, once no request is outstanding the lineDefs and things in state
\* are those of the most recent selection, never those of a stale one
C27_AsStated ==
    (Mounted /\ NoRequestOutstanding)
    => /\ LatestRun.params = ParamsOf(page)
       /\ page.lineDefs \in {<<>>, LineDefsOf(ParamsOf(page))}
       /\ page.things \in {<<>>, ThingsOf(ParamsOf(page))}
       /\ (LatestRun.pc = "ended" =>
             /\ page.lineDefs = LineDefsOf(ParamsOf(page))
             /\ page.things = ThingsOf(ParamsOf(page)))

\* what holds without overlap: a single reloadMap run leaves the data of
\* its selection
C27_SingleRun ==
    (Len(procs) = 1 /\ LatestRun.pc = "ended")
    => /\ page.lineDefs = LineDefsOf(ParamsOf(page))
       /\ page.things = ThingsOf(ParamsOf(page))

-----------------------------------------------------------------------------
(* C28: the order of the steps of a reloadMap run *)

RunStarted == call.op \in {"mount", "setWadFile", "setEpisodeNr", "setMapNr"}

\* a run starts with empty lineDefs and things and its linedefs request; it
\* awaits or has had a things answer only after a linedefs answer of status
\* 200; the loading flag of a request is false when the request has ended
RunOrder ==
    /\ RunStarted =>
          /\ page.lineDefs = <<>>
          /\ page.things = <<>>
          /\ page.isLoadingLineDefs
          /\ LatestRun = ReloadMapRun(ParamsOf(page), "linedefs", 0 - 1)
    /\ \A r \in 1..Len(procs) :
          /\ procs[r].pc \in {"things", "ended"} => procs[r].status = 200
          /\ procs[r].pc = "linedefs" => procs[r].status = 0 - 1
    /\ call.op = "reloadLineDefs" => ~page.isLoadingLineDefs
    /\ call.op = "reloadThings" => ~page.isLoadingThings

\* the latest run's linedefs request failed or had another status than 200
LatestLineDefsFailed ==
    Mounted /\ LatestRun.pc = "failed" /\ LatestRun.status # 200

\* C28 as stated: each reloadMap run empties lineDefs and things, issues the
\* linedefs request, issues the things request only after a linedefs answer
\* of status 200; after a failed linedefs request or another status no
\* things request is issued and things stays empty; the loading flags are
\* reset when their request ends
C28_AsStated ==
    /\ RunOrder
    /\ LatestLineDefsFailed => page.things = <<>>

\* the part of C28 that holds in every interleaving
C28_RunOrder == RunOrder

\* with a single run the things stay empty after a failed linedefs request
C28_SingleRun ==
    (Len(procs) = 1 /\ LatestLineDefsFailed) => (page.things = <<>> /\ page.lineDefs = <<>>)

-----------------------------------------------------------------------------
(* C29: the thing selection *)

NoDuplicates(list) == \A i \in 1..Len(list) : \A j \in 1..Len(list) : list[i] = list[j] => i = j

EveryThingSelected ==
    /\ Len(page.selectedThingIds) = Len(page.things)
    /\ \A id \in 0..(Len(page.things) - 1) : Includes(page.selectedThingIds, id)

\* C29: after a successful things load every loaded thing is selected; the
\* selection never holds an id twice, whatever was toggled; select-all
\* selects every thing when not all were selected and empties the selection
\* when all were; areAllThingsSelected is false when no thing is loaded.
C29_Selection ==
    /\ (call.op = "reloadThings" /\ call.episodeNr = 200)
       => (EveryThingSelected /\ page.selectedThingIds = ThingIndexes(page.things))
    /\ NoDuplicates(page.selectedThingIds)
    /\ call.op = "selectAll"
       => (IF ret[1] THEN page.selectedThingIds = <<>> ELSE EveryThingSelected)
    /\ page.things = <<>> => ~AreAllThingsSelected(page)

\* two things loaded, thing 0 toggled off and on again: the selection is
\* [1, 0], without a duplicate
C29_Witness ==
    /\ call.op = "toggleThing"
    /\ Len(page.things) = 2
    /\ page.selectedThingIds = <<1, 0>>
    /\ ret = <<FALSE>>

\* select-all with every thing selected has emptied the selection
C29_WitnessSelectAll ==
    /\ call.op = "selectAll"
    /\ Len(page.things) = 2
    /\ ret = <<TRUE>>
    /\ page.selectedThingIds = <<>>

-----------------------------------------------------------------------------
(* C30: which decoder the /api/linedefs handler runs *)

Handled == call.op = "getLineDefs"

\* the query value, absent or not, names this WAD when case and surrounding
\* white space are ignored
Names(param, name) == param # <<>> /\ Trim(ToUpperCase(param[1])) = ToUpperCase(name)

AbsentOrEmpty(param) == param = <<>> \/ Trim(param[1]) = <<>>

\* the number a selector parameter of the inputs stands for, 1 by default
SelectorOf(param) ==
    IF AbsentOrEmpty(param) THEN 1
    ELSE IF param[1] \in {<<49>>, <<32, 49>>} THEN 1
    ELSE IF param[1] \in {<<50>>, <<32, 50, 32>>, <<48, 50>>} THEN 2
    ELSE 3

Segment(x1, y1, x2, y2) == [start |-> [x |-> x1, y |-> y1], end |-> [x |-> x2, y |-> y2]]

\* the segments of the maps of the two archives of the inputs
SegmentsOfDoom(episodeNr, mapNr) ==
    IF episodeNr = 1 /\ mapNr = 1 THEN <<Segment(0, 0, 10, 0)>>
    ELSE IF episodeNr = 1 /\ mapNr = 2 THEN <<Segment(10, 0, 0 - 3, 7)>>
    ELSE <<>>

SegmentsOfDoom2(mapNr) ==
    IF mapNr = 1 THEN <<Segment(0 - 3, 7, 0, 0)>>
    ELSE IF mapNr = 2 THEN <<Segment(0, 0, 10, 0), Segment(10, 0, 0 - 3, 7)>>
    ELSE <<>>

\* C30: the handler selects the decoder from the lower-cased, trimmed query
\* parameter w: absent or empty it behaves as doom2 (sequential decoder, m
\* defaulting to 1), doom selects the episodic decoder with e and m
\* defaulting to 1, any other value reads no WAD file and answers with the
\* empty list; every request that does not fail answers exactly once, with
\* the decoded list.
C30_HandlerSelectsDecoder ==
    Handled =>
        /\ (AbsentOrEmpty(input.query.w) \/ Names(input.query.w, STR_doom2)) =>
              /\ ret = <<"doom2.wad">>
              /\ input.files.doom2 = <<Doom2Wad>> =>
                    (/\ error = "none"
                     /\ json = <<SegmentsOfDoom2(SelectorOf(input.query.m))>>)
        /\ Names(input.query.w, STR_doom) =>
              /\ ret = <<"doom.wad">>
              /\ input.files.doom = <<DoomWad>> =>
                    (/\ error = "none"
                     /\ json = <<SegmentsOfDoom(SelectorOf(input.query.e),
                                                SelectorOf(input.query.m))>>)
        /\ ~(AbsentOrEmpty(input.query.w) \/ Names(input.query.w, STR_doom2)
              \/ Names(input.query.w, STR_doom)) =>
              (ret = <<>> /\ error = "none" /\ json = << <<>> >>)
        /\ error = "none" => Len(json) = 1
        /\ error # "none" => json = <<>>

\* no w and no m: doom2.wad is read and the one segment of MAP01 is the answer
C30_Witness ==
    /\ Handled
    /\ input.query.w = <<>>
    /\ input.query.m = <<>>
    /\ ret = <<"doom2.wad">>
    /\ json = << <<Segment(0 - 3, 7, 0, 0)>> >>

\* w = " DOOM ", no e, m = "02": doom.wad is read, E1M2 is the answer
C30_WitnessDoom ==
    /\ Handled
    /\ input.query.w = << <<32, 68, 79, 79, 77, 32>> >>
    /\ input.query.e = <<>>
    /\ input.query.m = << <<48, 50>> >>
    /\ ret = <<"doom.wad">>
    /\ json = << <<Segment(10, 0, 0 - 3, 7)>> >>

\* w = "heretic": no file is read, the answer is the empty list
C30_WitnessOther ==
    /\ Handled
    /\ input.query.w = << <<104, 101, 114, 101, 116, 105, 99>> >>
    /\ ret = <<>>
    /\ json = << <<>> >>

=============================================================================
